---- MODULE Spec2Model ----
(***************************************************************************)
(* A model of the mal interpreter in src/impls/rust-dmr: the value model   *)
(* (types.rs), the environment chain (environment.rs), the evaluator and   *)
(* its special forms (evaluator.rs, special_forms.rs), the primitives      *)
(* (core.rs), and the tokenizer, reader, string codec and printer          *)
(* (tokens.rs, reader.rs, strings.rs, printer.rs).                         *)
(*                                                                         *)
(* A Rust String is a sequence of one-character strings.  A MalObject is   *)
(* a tuple whose first element is the name of its enum variant and whose   *)
(* second element is the payload.  Rc<Environment> and the Rc<RefCell<..>> *)
(* of an Atom are indices into the heap sequences envs and atoms, so that  *)
(* sharing and identity are those of the Rust pointers.  The meta fields   *)
(* are left out: no primitive of core.rs reads or writes them.             *)
(*                                                                         *)
(* A function that returns evaluator::Result is an operator that takes the *)
(* heap st and returns [ok, val, st]: the Ok or Err payload and the heap   *)
(* after the call.                                                         *)
(***************************************************************************)
EXTENDS Integers, Sequences, FiniteSets, TLC

(***************************************************************************)
(* Bounds of the model.                                                    *)
(***************************************************************************)
\* REPL lines evaluated in one behaviour
MaxLines == 2
\* steps of the host machine that one call from the REPL may take
MaxFuel == 1000
\* iterations of a self-calling closure
MaxIter == 2
\* elements of a form given to quasiquote
MaxLen == 2
\* frames of the environments that set, get, fetch and spawn_from are applied to
MaxFrames == 3
\* characters of a string that is printed and read back
MaxStr == 1
\* width of MalInt in the model (isize in the source)
IntBits == 16

(***************************************************************************)
(* String literals of the source, spelled as character sequences.          *)
(***************************************************************************)
Text ==
    "def!" :> <<"d", "e", "f", "!">> @@
    "defmacro!" :> <<"d", "e", "f", "m", "a", "c", "r", "o", "!">> @@
    "let*" :> <<"l", "e", "t", "*">> @@
    "do" :> <<"d", "o">> @@
    "if" :> <<"i", "f">> @@
    "fn*" :> <<"f", "n", "*">> @@
    "quote" :> <<"q", "u", "o", "t", "e">> @@
    "quasiquote" :> <<"q", "u", "a", "s", "i", "q", "u", "o", "t", "e">> @@
    "macroexpand" :> <<"m", "a", "c", "r", "o", "e", "x", "p", "a", "n", "d">> @@
    "try*" :> <<"t", "r", "y", "*">> @@
    "catch*" :> <<"c", "a", "t", "c", "h", "*">> @@
    "unquote" :> <<"u", "n", "q", "u", "o", "t", "e">> @@
    "splice-unquote" :> <<"s", "p", "l", "i", "c", "e", "-", "u", "n", "q", "u", "o", "t", "e">> @@
    "&" :> <<"&">> @@
    "eval" :> <<"e", "v", "a", "l">> @@
    "*host-language*" :> <<"*", "h", "o", "s", "t", "-", "l", "a", "n", "g", "u", "a", "g", "e", "*">> @@
    "rust-dmr" :> <<"r", "u", "s", "t", "-", "d", "m", "r">> @@
    "closure" :> <<"c", "l", "o", "s", "u", "r", "e">> @@
    "try* catch list" :> <<"t", "r", "y", "*", " ", "c", "a", "t", "c", "h", " ", "l", "i", "s", "t">> @@
    "quasiquote argument" :> <<"q", "u", "a", "s", "i", "q", "u", "o", "t", "e", " ", "a", "r", "g", "u", "m", "e", "n", "t">> @@
    "splice-unquote argument" :> <<"s", "p", "l", "i", "c", "e", "-", "u", "n", "q", "u", "o", "t", "e", " ", "a", "r", "g", "u", "m", "e", "n", "t">> @@
    "not" :> <<"n", "o", "t">> @@
    "load-file" :> <<"l", "o", "a", "d", "-", "f", "i", "l", "e">> @@
    "cond" :> <<"c", "o", "n", "d">> @@
    "true" :> <<"t", "r", "u", "e">> @@
    "false" :> <<"f", "a", "l", "s", "e">> @@
    "nil" :> <<"n", "i", "l">> @@
    "with-meta" :> <<"w", "i", "t", "h", "-", "m", "e", "t", "a">> @@
    "+" :> <<"+">> @@
    "-" :> <<"-">> @@
    "*" :> <<"*">> @@
    "/" :> <<"/">> @@
    "<" :> <<"<">> @@
    "<=" :> <<"<", "=">> @@
    ">" :> <<">">> @@
    ">=" :> <<">", "=">> @@
    "pr-str" :> <<"p", "r", "-", "s", "t", "r">> @@
    "str" :> <<"s", "t", "r">> @@
    "prn" :> <<"p", "r", "n">> @@
    "println" :> <<"p", "r", "i", "n", "t", "l", "n">> @@
    "read-string" :> <<"r", "e", "a", "d", "-", "s", "t", "r", "i", "n", "g">> @@
    "slurp" :> <<"s", "l", "u", "r", "p">> @@
    "cons" :> <<"c", "o", "n", "s">> @@
    "concat" :> <<"c", "o", "n", "c", "a", "t">> @@
    "nth" :> <<"n", "t", "h">> @@
    "first" :> <<"f", "i", "r", "s", "t">> @@
    "rest" :> <<"r", "e", "s", "t">> @@
    "apply" :> <<"a", "p", "p", "l", "y">> @@
    "map" :> <<"m", "a", "p">> @@
    "seq" :> <<"s", "e", "q">> @@
    "conj" :> <<"c", "o", "n", "j">> @@
    "hash-map" :> <<"h", "a", "s", "h", "-", "m", "a", "p">> @@
    "assoc" :> <<"a", "s", "s", "o", "c">> @@
    "dissoc" :> <<"d", "i", "s", "s", "o", "c">> @@
    "get" :> <<"g", "e", "t">> @@
    "contains?" :> <<"c", "o", "n", "t", "a", "i", "n", "s", "?">> @@
    "keys" :> <<"k", "e", "y", "s">> @@
    "vals" :> <<"v", "a", "l", "s">> @@
    "deref" :> <<"d", "e", "r", "e", "f">> @@
    "reset!" :> <<"r", "e", "s", "e", "t", "!">> @@
    "swap!" :> <<"s", "w", "a", "p", "!">> @@
    "nil?" :> <<"n", "i", "l", "?">> @@
    "true?" :> <<"t", "r", "u", "e", "?">> @@
    "false?" :> <<"f", "a", "l", "s", "e", "?">> @@
    "list" :> <<"l", "i", "s", "t">> @@
    "list?" :> <<"l", "i", "s", "t", "?">> @@
    "vector" :> <<"v", "e", "c", "t", "o", "r">> @@
    "vector?" :> <<"v", "e", "c", "t", "o", "r", "?">> @@
    "sequential?" :> <<"s", "e", "q", "u", "e", "n", "t", "i", "a", "l", "?">> @@
    "empty?" :> <<"e", "m", "p", "t", "y", "?">> @@
    "count" :> <<"c", "o", "u", "n", "t">> @@
    "=" :> <<"=">> @@
    "atom" :> <<"a", "t", "o", "m">> @@
    "atom?" :> <<"a", "t", "o", "m", "?">> @@
    "symbol" :> <<"s", "y", "m", "b", "o", "l">> @@
    "symbol?" :> <<"s", "y", "m", "b", "o", "l", "?">> @@
    "keyword" :> <<"k", "e", "y", "w", "o", "r", "d">> @@
    "keyword?" :> <<"k", "e", "y", "w", "o", "r", "d", "?">> @@
    "map?" :> <<"m", "a", "p", "?">> @@
    "fn?" :> <<"f", "n", "?">> @@
    "macro?" :> <<"m", "a", "c", "r", "o", "?">> @@
    "string?" :> <<"s", "t", "r", "i", "n", "g", "?">> @@
    "number?" :> <<"n", "u", "m", "b", "e", "r", "?">> @@
    "throw" :> <<"t", "h", "r", "o", "w">> @@
    "readline" :> <<"r", "e", "a", "d", "l", "i", "n", "e">> @@
    "time-ms" :> <<"t", "i", "m", "e", "-", "m", "s">> @@
    "' not found" :> <<"'", " ", "n", "o", "t", " ", "f", "o", "u", "n", "d">> @@
    "'" :> <<"'">> @@
    "type mismatch: " :> <<"t", "y", "p", "e", " ", "m", "i", "s", "m", "a", "t", "c", "h", ":", " ">> @@
    "def!: " :> <<"d", "e", "f", "!", ":", " ">> @@
    "let*: " :> <<"l", "e", "t", "*", ":", " ">> @@
    "do: " :> <<"d", "o", ":", " ">> @@
    "fn*: " :> <<"f", "n", "*", ":", " ">> @@
    "cannot divide by zero!" :> <<"c", "a", "n", "n", "o", "t", " ", "d", "i", "v", "i", "d", "e", " ", "b", "y", " ", "z", "e", "r", "o", "!">> @@
    "bad index: " :> <<"b", "a", "d", " ", "i", "n", "d", "e", "x", ":", " ">> @@
    " not in range [" :> <<" ", "n", "o", "t", " ", "i", "n", " ", "r", "a", "n", "g", "e", " ", "[">> @@
    ", " :> <<",", " ">> @@
    ")" :> <<")">> @@
    "bad syntax: missing catch* from try*" :> <<"b", "a", "d", " ", "s", "y", "n", "t", "a", "x", ":", " ", "m", "i", "s", "s", "i", "n", "g", " ", "c", "a", "t", "c", "h", "*", " ", "f", "r", "o", "m", " ", "t", "r", "y", "*">> @@
    "\nWhile handling the above exception, another exception occurred: " :> <<"\n", "W", "h", "i", "l", "e", " ", "h", "a", "n", "d", "l", "i", "n", "g", " ", "t", "h", "e", " ", "a", "b", "o", "v", "e", " ", "e", "x", "c", "e", "p", "t", "i", "o", "n", ",", " ", "a", "n", "o", "t", "h", "e", "r", " ", "e", "x", "c", "e", "p", "t", "i", "o", "n", " ", "o", "c", "c", "u", "r", "r", "e", "d", ":", " ">> @@
    "UserException: " :> <<"U", "s", "e", "r", "E", "x", "c", "e", "p", "t", "i", "o", "n", ":", " ">> @@
    "When evaluating " :> <<"W", "h", "e", "n", " ", "e", "v", "a", "l", "u", "a", "t", "i", "n", "g", " ">> @@
    " expected " :> <<" ", "e", "x", "p", "e", "c", "t", "e", "d", " ">> @@
    " arguments, but received " :> <<" ", "a", "r", "g", "u", "m", "e", "n", "t", "s", ",", " ", "b", "u", "t", " ", "r", "e", "c", "e", "i", "v", "e", "d", " ">> @@
    " arguments" :> <<" ", "a", "r", "g", "u", "m", "e", "n", "t", "s">> @@
    "exactly " :> <<"e", "x", "a", "c", "t", "l", "y", " ">> @@
    "from " :> <<"f", "r", "o", "m", " ">> @@
    " to " :> <<" ", "t", "o", " ">> @@
    "At least " :> <<"A", "t", " ", "l", "e", "a", "s", "t", " ">> @@
    "any odd number" :> <<"a", "n", "y", " ", "o", "d", "d", " ", "n", "u", "m", "b", "e", "r">> @@
    "any even number, including zero" :> <<"a", "n", "y", " ", "e", "v", "e", "n", " ", "n", "u", "m", "b", "e", "r", ",", " ", "i", "n", "c", "l", "u", "d", "i", "n", "g", " ", "z", "e", "r", "o">> @@
    "cannot apply list whose first entry is not a symbol" :> <<"c", "a", "n", "n", "o", "t", " ", "a", "p", "p", "l", "y", " ", "l", "i", "s", "t", " ", "w", "h", "o", "s", "e", " ", "f", "i", "r", "s", "t", " ", "e", "n", "t", "r", "y", " ", "i", "s", " ", "n", "o", "t", " ", "a", " ", "s", "y", "m", "b", "o", "l">> @@
    "(atom " :> <<"(", "a", "t", "o", "m", " ">> @@
    "(fn* (" :> <<"(", "f", "n", "*", " ", "(">> @@
    "(fn*-macro (" :> <<"(", "f", "n", "*", "-", "m", "a", "c", "r", "o", " ", "(">> @@
    ") " :> <<")", " ">> @@
    " & " :> <<" ", "&", " ">> @@
    " " :> <<" ">> @@
    "(" :> <<"(">> @@
    "[" :> <<"[">> @@
    "]" :> <<"]">> @@
    "{" :> <<"{">> @@
    "}" :> <<"}">> @@
    ":" :> <<":">> @@
    "\"" :> <<"\"">> @@
    "\\" :> <<"\\">> @@
    "\\\\" :> <<"\\", "\\">> @@
    "\\\"" :> <<"\\", "\"">> @@
    "\\n" :> <<"\\", "n">> @@
    "\\t" :> <<"\\", "t">> @@
    "\\r" :> <<"\\", "r">> @@
    "NotAnInt" :> <<"N", "o", "t", "A", "n", "I", "n", "t">> @@
    "NotAList" :> <<"N", "o", "t", "A", "L", "i", "s", "t">> @@
    "NotASequence" :> <<"N", "o", "t", "A", "S", "e", "q", "u", "e", "n", "c", "e">> @@
    "NotASymbol" :> <<"N", "o", "t", "A", "S", "y", "m", "b", "o", "l">> @@
    "NotAString" :> <<"N", "o", "t", "A", "S", "t", "r", "i", "n", "g">> @@
    "NotAnAtom" :> <<"N", "o", "t", "A", "n", "A", "t", "o", "m">> @@
    "NotCallable" :> <<"N", "o", "t", "C", "a", "l", "l", "a", "b", "l", "e">> @@
    "NotAClosure" :> <<"N", "o", "t", "A", "C", "l", "o", "s", "u", "r", "e">> @@
    "NotIntoKeyword" :> <<"N", "o", "t", "I", "n", "t", "o", "K", "e", "y", "w", "o", "r", "d">> @@
    "NotABool" :> <<"N", "o", "t", "A", "B", "o", "o", "l">> @@
    "NotAMap" :> <<"N", "o", "t", "A", "M", "a", "p">> @@
    "NotAValidKey" :> <<"N", "o", "t", "A", "V", "a", "l", "i", "d", "K", "e", "y">> @@
    "WrongArgCount(" :> <<"W", "r", "o", "n", "g", "A", "r", "g", "C", "o", "u", "n", "t", "(">> @@
    "KeyNotASymbol" :> <<"K", "e", "y", "N", "o", "t", "A", "S", "y", "m", "b", "o", "l">> @@
    "BindingsNotSequence" :> <<"B", "i", "n", "d", "i", "n", "g", "s", "N", "o", "t", "S", "e", "q", "u", "e", "n", "c", "e">> @@
    "BindingsOddLength" :> <<"B", "i", "n", "d", "i", "n", "g", "s", "O", "d", "d", "L", "e", "n", "g", "t", "h">> @@
    "BindToNonSymbol" :> <<"B", "i", "n", "d", "T", "o", "N", "o", "n", "S", "y", "m", "b", "o", "l">> @@
    "NothingToDo" :> <<"N", "o", "t", "h", "i", "n", "g", "T", "o", "D", "o">> @@
    "ParametersNotGivenAsList" :> <<"P", "a", "r", "a", "m", "e", "t", "e", "r", "s", "N", "o", "t", "G", "i", "v", "e", "n", "A", "s", "L", "i", "s", "t">> @@
    "ParameterNotASymbol" :> <<"P", "a", "r", "a", "m", "e", "t", "e", "r", "N", "o", "t", "A", "S", "y", "m", "b", "o", "l">> @@
    "BadVariadic(" :> <<"B", "a", "d", "V", "a", "r", "i", "a", "d", "i", "c", "(">> @@
    "TooManyAmpersands(" :> <<"T", "o", "o", "M", "a", "n", "y", "A", "m", "p", "e", "r", "s", "a", "n", "d", "s", "(">> @@
    "TooShortForAmpersand" :> <<"T", "o", "o", "S", "h", "o", "r", "t", "F", "o", "r", "A", "m", "p", "e", "r", "s", "a", "n", "d">> @@
    "AmpersandPositionNotPenultimate" :> <<"A", "m", "p", "e", "r", "s", "a", "n", "d", "P", "o", "s", "i", "t", "i", "o", "n", "N", "o", "t", "P", "e", "n", "u", "l", "t", "i", "m", "a", "t", "e">> @@
    "0" :> <<"0">> @@
    "1" :> <<"1">> @@
    "2" :> <<"2">> @@
    "3" :> <<"3">> @@
    "4" :> <<"4">> @@
    "5" :> <<"5">> @@
    "6" :> <<"6">> @@
    "7" :> <<"7">> @@
    "8" :> <<"8">> @@
    "9" :> <<"9">> @@
    "odd number of forms to cond" :> <<"o", "d", "d", " ", "n", "u", "m", "b", "e", "r", " ", "o", "f", " ", "f", "o", "r", "m", "s", " ", "t", "o", " ", "c", "o", "n", "d">> @@
    "a" :> <<"a">> @@
    "b" :> <<"b">> @@
    "c" :> <<"c">> @@
    "d" :> <<"d">> @@
    "e" :> <<"e">> @@
    "f" :> <<"f">> @@
    "g" :> <<"g">> @@
    "n" :> <<"n">> @@
    "x" :> <<"x">> @@
    "y" :> <<"y">> @@
    "z" :> <<"z">> @@
    "xs" :> <<"x", "s">> @@
    "acc" :> <<"a", "c", "c">> @@
    "boom" :> <<"b", "o", "o", "m">> @@
    "m" :> <<"m">> @@
    "k" :> <<"k">> @@
    "id" :> <<"i", "d">> @@
    "inc" :> <<"i", "n", "c">> @@
    "loop" :> <<"l", "o", "o", "p">> @@
    "twice" :> <<"t", "w", "i", "c", "e">> @@
    "unless" :> <<"u", "n", "l", "e", "s", "s">> @@
    "h" :> <<"h">> @@
    "p" :> <<"p">> @@
    "q" :> <<"q">> @@
    "w" :> <<"w">> @@
    "mk" :> <<"m", "k">>

(***************************************************************************)
(* types.rs: MalObject and its variants.                                   *)
(***************************************************************************)
Nil == <<"Nil">>
Integer(x) == <<"Integer", x>>
Bool(b) == <<"Bool", b>>
String(s) == <<"String", s>>
Symbol(s) == <<"Symbol", s>>
Keyword(s) == <<"Keyword", s>>
List(xs) == <<"List", xs>>
Vector(xs) == <<"Vector", xs>>
Map(m) == <<"Map", m>>
\* the &'static PrimitiveFn is named by its name field, a key of Text
Primitive(name) == <<"Primitive", name>>
\* c = [parameters |-> [positional, others], body, parent, is_macro]
Closure(c) == <<"Closure", c>>
\* the Weak<Environment> of add_eval always points at the root frame
Eval(env) == <<"Eval", env>>
Atom(cell) == <<"Atom", cell>>

Tag(obj) == obj[1]
Payload(obj) == obj[2]

new_list == List(<<>>)
new_symbol(name) == Symbol(Text[name])

\* Option<T>: None is << >>, Some(x) is <<x>>
None == <<>>
Some(x) == <<x>>

\* a truthy that takes the integer 0 and empty collections for false
truthy_but_empty(obj) ==
    CASE Tag(obj) = "Bool" -> Payload(obj)
      [] Tag(obj) = "Nil" -> FALSE
      [] Tag(obj) = "Integer" -> Payload(obj) # 0
      [] Tag(obj) \in {"String", "List", "Vector", "Map"} -> Payload(obj) # <<>>
      [] OTHER -> TRUE

truthy(obj) ==
    CASE Tag(obj) = "Bool" -> Payload(obj)
      [] Tag(obj) = "Nil" -> FALSE
      [] OTHER -> TRUE

callable(obj) == Tag(obj) \in {"Primitive", "Closure", "Eval"}

is_seq(obj) == Tag(obj) \in {"List", "Vector"}

is_macro(obj) == Tag(obj) = "Closure" /\ Payload(obj).is_macro

\* HashKey::String / HashKey::Keyword keep the variant name and the text
is_hashkey(obj) == Tag(obj) \in {"String", "Keyword"}

\* HashMap::insert
Insert(m, k, v) == [x \in (DOMAIN m) \cup {k} |-> IF x = k THEN v ELSE m[x]]

\* HashMap::remove
Remove(m, k) == [x \in (DOMAIN m) \ {k} |-> m[x]]

\* slice[i..]
SliceFrom(s, i) == SubSeq(s, i, Len(s))

(***************************************************************************)
(* evaluator.rs: Result and Error.  An Error is a tuple headed by the      *)
(* name of its variant.                                                    *)
(***************************************************************************)
Ok(v, st) == [ok |-> TRUE, val |-> v, st |-> st]
Err(e, st) == [ok |-> FALSE, val |-> e, st |-> st]

TypeMismatch(kind) == <<"TypeMismatch", kind>>

\* the EVAL loop ran MaxFuel times: where the model stops, not an Error of the source
OutOfFuel == <<"OutOfFuel">>

\* a primitive whose body is outside the model (I/O) was called
Unmodelled(name) == <<"Unmodelled", name>>

(***************************************************************************)
(* types.rs: Arity.                                                        *)
(***************************************************************************)
Between(lo, hi) == <<"Between", lo, hi>>
exactly(n) == Between(n, n)
at_least(n) == <<"AtLeast", n>>
Odd == <<"Odd">>
Even == <<"Even">>

\* a contains that takes a range for open above
contains_no_upper(arity, n) ==
    CASE arity[1] = "Between" -> arity[2] <= n
      [] arity[1] = "AtLeast" -> arity[2] <= n
      [] arity[1] = "Odd" -> n % 2 = 1
      [] arity[1] = "Even" -> n % 2 = 0

contains(arity, n) ==
    CASE arity[1] = "Between" -> arity[2] <= n /\ n <= arity[3]
      [] arity[1] = "AtLeast" -> arity[2] <= n
      [] arity[1] = "Odd" -> n % 2 = 1
      [] arity[1] = "Even" -> n % 2 = 0

\* Ok(()) is None, Err(BadArgCount{name, expected, got}) is Some of it
validate_for(arity, n, name) ==
    IF contains(arity, n) THEN None ELSE Some(<<"BadArgCount", name, arity, n>>)

(***************************************************************************)
(* types.rs: MalInt.  wrapping_* on IntBits bits.                          *)
(***************************************************************************)
IntModulus == 2 ^ IntBits
IntMin == -(2 ^ (IntBits - 1))
IntMax == (2 ^ (IntBits - 1)) - 1
\* arithmetic that saturates at the ends of the range
Saturate(x) == IF x > IntMax THEN IntMax ELSE IF x < IntMin THEN IntMin ELSE x

Wrap(x) == ((x - IntMin) % IntModulus) + IntMin

(***************************************************************************)
(* environment.rs: Environment.  st.envs[e] = [data, parent]; parent 0 is  *)
(* None.                                                                   *)
(***************************************************************************)
RootEnv == 1

env_set(st, env, key, value) ==
    [st EXCEPT !.envs[env].data = Insert(@, key, value)]

\* what Environment::set returns: the value the frame held for key
env_set_returns(st, env, key) ==
    IF key \in DOMAIN st.envs[env].data THEN Some(st.envs[env].data[key]) ELSE None

\* a get that looks in the frame itself and never in its parent
env_get_in_frame(st, env, key) ==
    IF key \in DOMAIN st.envs[env].data THEN Some(st.envs[env].data[key]) ELSE None

RECURSIVE env_get(_, _, _)
env_get(st, env, key) ==
    IF key \in DOMAIN st.envs[env].data
    THEN Some(st.envs[env].data[key])
    ELSE IF st.envs[env].parent # 0
         THEN env_get(st, st.envs[env].parent, key)
         ELSE None

fetch(st, env, key) ==
    LET found == env_get(st, env, key)
    IN IF found # None THEN Ok(found[1], st) ELSE Err(<<"UnknownSymbol", key>>, st)

\* the frame spawn_from returns is the last of st.envs
spawn_from(st, parent) ==
    [st EXCEPT !.envs = Append(@, [data |-> <<>>, parent |-> parent])]

spawned(st) == Len(st.envs)

(***************************************************************************)
(* types.rs: impl PartialEq for MalObject.                                 *)
(***************************************************************************)
RECURSIVE eq(_, _)

\* equal_sequences without the comparison of the lengths: zip stops at the
\* end of the shorter slice
equal_sequences_zipped(xs, ys) ==
    \A i \in 1..(IF Len(xs) <= Len(ys) THEN Len(xs) ELSE Len(ys)) : eq(xs[i], ys[i])

equal_sequences(xs, ys) ==
    Len(xs) = Len(ys) /\ \A i \in 1..Len(xs) : eq(xs[i], ys[i])

\* ys.payload.get(key) == Some(value)
equal_maps(xs, ys) ==
    /\ Cardinality(DOMAIN xs) = Cardinality(DOMAIN ys)
    /\ \A key \in DOMAIN xs : key \in DOMAIN ys /\ eq(ys[key], xs[key])

eq(self, other) ==
    IF is_seq(self) /\ is_seq(other)
    THEN equal_sequences(Payload(self), Payload(other))
    ELSE CASE Tag(self) = "Integer" /\ Tag(other) = "Integer" -> Payload(self) = Payload(other)
           [] Tag(self) = "Bool" /\ Tag(other) = "Bool" -> Payload(self) = Payload(other)
           [] Tag(self) = "String" /\ Tag(other) = "String" -> Payload(self) = Payload(other)
           [] Tag(self) = "Keyword" /\ Tag(other) = "Keyword" -> Payload(self) = Payload(other)
           [] Tag(self) = "Symbol" /\ Tag(other) = "Symbol" -> Payload(self) = Payload(other)
           [] Tag(self) = "Map" /\ Tag(other) = "Map" -> equal_maps(Payload(self), Payload(other))
           [] Tag(self) = "Nil" /\ Tag(other) = "Nil" -> TRUE
           [] OTHER -> FALSE

(***************************************************************************)
(* The iteration order of a std HashMap is not specified.  The model takes *)
(* one of two opposite orders of the keys, by the hash seed of the run.    *)
(***************************************************************************)
RECURSIVE KeySeq(_)
KeySeq(keys) ==
    IF keys = {} THEN <<>>
    ELSE LET k == CHOOSE x \in keys : TRUE IN <<k>> \o KeySeq(keys \ {k})

Reverse(s) == [i \in 1..Len(s) |-> s[Len(s) + 1 - i]]

iter_keys(m, seed) == IF seed = 0 THEN KeySeq(DOMAIN m) ELSE Reverse(KeySeq(DOMAIN m))

(***************************************************************************)
(* strings.rs and printer.rs.                                              *)
(***************************************************************************)
RECURSIVE Join(_, _)
Join(texts, sep) ==
    IF Len(texts) = 0 THEN <<>>
    ELSE IF Len(texts) = 1 THEN texts[1]
    ELSE texts[1] \o sep \o Join(Tail(texts), sep)

RECURSIVE NatText(_)
NatText(n) ==
    LET digit == <<"0", "1", "2", "3", "4", "5", "6", "7", "8", "9">>[(n % 10) + 1]
    IN IF n < 10 THEN <<digit>> ELSE NatText(n \div 10) \o <<digit>>

\* format!("{}", x) of an isize
IntText(x) == IF x < 0 THEN <<"-">> \o NatText(-x) ELSE NatText(x)

\* StringPrinter::next: ESCAPES.get_by_right
escape_char(c) ==
    CASE c = "\\" -> <<"\\", "\\">>
      [] c = "\"" -> <<"\\", "\"">>
      [] c = "\n" -> <<"\\", "n">>
      [] OTHER -> <<c>>

RECURSIVE escape_all(_)
escape_all(src) ==
    IF src = <<>> THEN <<>> ELSE escape_char(Head(src)) \o escape_all(Tail(src))

string_repr(src) == <<"\"">> \o escape_all(src) \o <<"\"">>

\* format!("{:?}", x) of a String: char::escape_debug on each character.  Of the
\* characters of the model only these five are escaped.
escape_debug(c) ==
    CASE c = "\\" -> <<"\\", "\\">>
      [] c = "\"" -> <<"\\", "\"">>
      [] c = "\n" -> <<"\\", "n">>
      [] c = "\t" -> <<"\\", "t">>
      [] c = "\r" -> <<"\\", "r">>
      [] OTHER -> <<c>>

RECURSIVE escape_debug_all(_)
escape_debug_all(src) ==
    IF src = <<>> THEN <<>> ELSE escape_debug(Head(src)) \o escape_debug_all(Tail(src))

debug_string(src) == <<"\"">> \o escape_debug_all(src) \o <<"\"">>

\* PrintMode
Readable == "ReadableRepresentation"
Directly == "Directly"

print_as_string(payload, mode) ==
    IF mode = Readable THEN string_repr(payload) ELSE payload

\* impl Display for ClosureParameters
DisplayParameters(p) ==
    Join(p.positional, Text[" "])
        \o (IF p.others # None THEN Text[" & "] \o p.others[1] ELSE <<>>)

RECURSIVE Display(_, _), pr_str(_, _, _)

write_sequence(seq, mode, st) ==
    Join([i \in 1..Len(seq) |-> pr_str(seq[i], mode, st)], Text[" "])

\* impl Display for MalMap
DisplayMap(m, st) ==
    LET keys == iter_keys(m, st.seed)
        entry(key) ==
            (IF key[1] = "String"
             THEN print_as_string(key[2], Readable)
             ELSE Text[":"] \o key[2])
            \o Text[" "] \o Display(m[key], st)
    IN Text["{"] \o Join([i \in 1..Len(keys) |-> entry(keys[i])], Text[" "]) \o Text["}"]

\* impl Display for Closure
DisplayClosure(c, st) ==
    (IF c.is_macro THEN Text["(fn*-macro ("] ELSE Text["(fn* ("])
        \o DisplayParameters(c.parameters) \o Text[") "] \o Display(c.body, st) \o Text[")"]

\* impl Display for MalObject
Display(obj, st) ==
    CASE Tag(obj) = "Nil" -> Text["nil"]
      [] Tag(obj) = "Integer" -> IntText(Payload(obj))
      [] Tag(obj) = "Bool" -> IF Payload(obj) THEN Text["true"] ELSE Text["false"]
      [] Tag(obj) = "String" -> debug_string(Payload(obj))
      [] Tag(obj) = "Symbol" -> Payload(obj)
      [] Tag(obj) = "Keyword" -> Text[":"] \o Payload(obj)
      [] Tag(obj) = "List" ->
            Text["("] \o write_sequence(Payload(obj), Readable, st) \o Text[")"]
      [] Tag(obj) = "Vector" ->
            Text["["] \o write_sequence(Payload(obj), Readable, st) \o Text["]"]
      [] Tag(obj) = "Map" -> DisplayMap(Payload(obj), st)
      [] Tag(obj) = "Primitive" -> Text[Payload(obj)]
      [] Tag(obj) = "Closure" -> DisplayClosure(Payload(obj), st)
      [] Tag(obj) = "Eval" -> Text["eval"]
      [] Tag(obj) = "Atom" ->
            Text["(atom "] \o Display(st.atoms[Payload(obj)], st) \o Text[")"]

pr_str(object, mode, st) ==
    CASE Tag(object) = "String" -> print_as_string(Payload(object), mode)
      [] Tag(object) = "List" ->
            Text["("] \o write_sequence(Payload(object), mode, st) \o Text[")"]
      [] Tag(object) = "Vector" ->
            Text["["] \o write_sequence(Payload(object), mode, st) \o Text["]"]
      [] OTHER -> Display(object, st)

(***************************************************************************)
(* evaluator.rs: impl Display for Error, impl From<&Error> for MalObject.  *)
(***************************************************************************)
\* impl Display for Arity
DisplayArity(arity) ==
    CASE arity[1] = "Between" ->
            IF arity[2] = arity[3]
            THEN Text["exactly "] \o NatText(arity[2])
            ELSE Text["from "] \o NatText(arity[2]) \o Text[" to "] \o NatText(arity[3])
      [] arity[1] = "AtLeast" -> Text["At least "] \o NatText(arity[2])
      [] arity[1] = "Odd" -> Text["any odd number"]
      [] arity[1] = "Even" -> Text["any even number, including zero"]

\* {:?} of DefError, LetError, DoError, FnError, BadClosureParameters:
\* <<variant>> or <<variant, field>>, the field a number or another such value
RECURSIVE DebugVariant(_)
DebugVariant(v) ==
    IF Len(v) = 1 THEN Text[v[1]]
    ELSE Text[v[1]]
            \o (IF v[1] = "BadVariadic(" THEN DebugVariant(v[2]) ELSE NatText(v[2]))
            \o Text[")"]

RECURSIVE DisplayError(_, _)
DisplayError(e, st) ==
    CASE e[1] = "UnknownSymbol" -> Text["'"] \o e[2] \o Text["' not found"]
      [] e[1] = "ListHeadNotSymbol" ->
            Text["cannot apply list whose first entry is not a symbol"]
      [] e[1] = "TypeMismatch" -> Text["type mismatch: "] \o Text[e[2]]
      [] e[1] = "Def" -> Text["def!: "] \o DebugVariant(e[2])
      [] e[1] = "Let" -> Text["let*: "] \o DebugVariant(e[2])
      [] e[1] = "Do" -> Text["do: "] \o DebugVariant(e[2])
      [] e[1] = "Fn" -> Text["fn*: "] \o DebugVariant(e[2])
      [] e[1] = "BadArgCount" ->
            Text["When evaluating "] \o e[2] \o Text[" expected "] \o DisplayArity(e[3])
                \o Text[" arguments, but received "] \o NatText(e[4]) \o Text[" arguments"]
      [] e[1] = "DivideByZero" -> Text["cannot divide by zero!"]
      [] e[1] = "BadIndex" ->
            Text["bad index: "] \o IntText(e[2]) \o Text[" not in range ["]
                \o NatText(e[3]) \o Text[", "] \o NatText(e[4]) \o Text[")"]
      [] e[1] = "MissingCatchFromTry" -> Text["bad syntax: missing catch* from try*"]
      [] e[1] = "InCatchHandler" ->
            DisplayError(e[2], st)
                \o Text["\nWhile handling the above exception, another exception occurred: "]
                \o DisplayError(e[3], st)
      [] e[1] = "UserException" -> Text["UserException: "] \o Display(e[2], st)
      [] OTHER -> <<>>

error_into_object(e, st) ==
    IF e[1] = "UserException" THEN e[2] ELSE String(DisplayError(e, st))

(***************************************************************************)
(* tokens.rs.  A Token is <<variant, payload>>.  TOKEN_RE always matches   *)
(* at the start of the input (every part of it may match nothing), so      *)
(* captures(input) is: the separators [\s,]*, the first alternative of the *)
(* capture group that matches, each part greedy, and the separators again. *)
(***************************************************************************)
\* the character U+0060, which a TLA+ string cannot hold
Backtick == "backtick"

\* \s over the characters of the model
is_space(c) == c \in {" ", "\t", "\n", "\r"}

is_separator(c) == is_space(c) \/ c = ","

\* the second alternative: one of the eleven special characters
is_special(c) == c \in {"[", "]", "{", "}", "(", ")", "'", Backtick, "~", "^", "@"}

\* the class of the last alternative: not a space and none of the twelve listed
is_plain(c) ==
    ~is_space(c) /\ c \notin {"[", "]", "{", "}", "(", "'", "\\", "\"", Backtick, ",", ";", ")"}

\* the least index from i on whose character is no separator
skip_separators(input, i) ==
    CHOOSE j \in i..(Len(input) + 1) :
        /\ j = Len(input) + 1 \/ ~is_separator(input[j])
        /\ \A k \in i..(j - 1) : is_separator(input[k])

\* the contents of a string literal from index i: an escape (a backslash and any
\* character but a newline) or a character that is neither backslash nor quote,
\* repeated; the index after the run
RECURSIVE string_contents(_, _)
string_contents(input, i) ==
    IF i > Len(input) THEN i
    ELSE IF input[i] = "\\"
         THEN IF i + 1 <= Len(input) /\ input[i + 1] # "\n"
              THEN string_contents(input, i + 2)
              ELSE i
         ELSE IF input[i] = "\"" THEN i ELSE string_contents(input, i + 1)

\* a comment runs to the end of the line
comment_end(input, i) ==
    CHOOSE j \in i..(Len(input) + 1) :
        /\ j = Len(input) + 1 \/ input[j] = "\n"
        /\ \A k \in i..(j - 1) : input[k] # "\n"

plain_end(input, i) ==
    CHOOSE j \in i..(Len(input) + 1) :
        /\ j = Len(input) + 1 \/ ~is_plain(input[j])
        /\ \A k \in i..(j - 1) : is_plain(input[k])

\* the index after the capture group, which starts at index i
capture_end(input, i) ==
    IF i > Len(input) THEN i
    ELSE IF input[i] = "~" /\ i + 1 <= Len(input) /\ input[i + 1] = "@" THEN i + 2
    ELSE IF is_special(input[i]) THEN i + 1
    ELSE IF input[i] = "\""
         THEN LET j == string_contents(input, i + 1)
              IN IF j <= Len(input) /\ input[j] = "\"" THEN j + 1 ELSE j
    ELSE IF input[i] = ";" THEN comment_end(input, i + 1)
    ELSE plain_end(input, i)

RECURSIVE trailing_backslashes(_, _)
trailing_backslashes(bytes, i) ==
    IF i >= 1 /\ bytes[i] = "\\" THEN 1 + trailing_backslashes(bytes, i - 1) ELSE 0

tokenize_string_literal(bytes) ==
    IF Len(bytes) = 1 \/ bytes[Len(bytes)] # "\""
    THEN [ok |-> FALSE, val |-> <<"UnbalancedString">>]
    ELSE IF trailing_backslashes(bytes, Len(bytes) - 1) % 2 = 1
         THEN [ok |-> FALSE, val |-> <<"UnbalancedString">>]
         ELSE [ok |-> TRUE, val |-> <<"StringLiteral", SubSeq(bytes, 2, Len(bytes) - 1)>>]

\* a create_token that makes a token of an empty capture
create_token_of_empty(captured) ==
    IF Len(captured) = 0 THEN [ok |-> TRUE, val |-> <<"PlainChars", captured>>]
    ELSE IF captured[1] = "\"" THEN tokenize_string_literal(captured)
    ELSE [ok |-> TRUE, val |-> <<"PlainChars", captured>>]

create_token(captured) ==
    IF Len(captured) = 0 THEN [ok |-> FALSE, val |-> <<"NoFirstCharacter">>]
    ELSE LET first_char == captured[1]
             token(t) == [ok |-> TRUE, val |-> t]
         IN CASE first_char = "~" ->
                    IF Len(captured) = 1 THEN token(<<"UnaryOp", "Unquote">>)
                    ELSE IF captured[2] = "@" THEN token(<<"UnaryOp", "SpliceUnquote">>)
                    ELSE [ok |-> FALSE, val |-> <<"BadTildeMatch">>]
              [] first_char = "[" -> token(<<"Open", "Vector">>)
              [] first_char = "{" -> token(<<"Open", "Map">>)
              [] first_char = "(" -> token(<<"Open", "List">>)
              [] first_char = "]" -> token(<<"Close", "Vector">>)
              [] first_char = "}" -> token(<<"Close", "Map">>)
              [] first_char = ")" -> token(<<"Close", "List">>)
              [] first_char = "'" -> token(<<"UnaryOp", "Quote">>)
              [] first_char = Backtick -> token(<<"UnaryOp", "Quasiquote">>)
              [] first_char = "^" -> token(<<"UnaryOp", "WithMeta">>)
              [] first_char = "@" -> token(<<"UnaryOp", "Deref">>)
              [] first_char = "\"" -> tokenize_string_literal(captured)
              [] first_char = ";" -> token(<<"Comment", SliceFrom(captured, 2)>>)
              [] OTHER -> token(<<"PlainChars", captured>>)

\* one iteration of the loop of tokenize: the token and the input left
tokenize_step(input) ==
    LET start == skip_separators(input, 1)
        cap_end == capture_end(input, start)
        match_end == skip_separators(input, cap_end)
        token == create_token(SubSeq(input, start, cap_end - 1))
    IN [ok |-> token.ok, val |-> token.val, rest |-> SliceFrom(input, match_end)]

\* a turn of the while loop of tokenize; the loop that has ended, by an Err or
\* on the empty input, stays as it is
push_token(loop, step) ==
    IF ~step.ok THEN [ok |-> FALSE, val |-> step.val, input |-> loop.input]
    ELSE [ok |-> TRUE, val |-> Append(loop.val, step.val), input |-> step.rest]

tokenize_turn(loop) ==
    IF ~loop.ok \/ Len(loop.input) = 0 THEN loop
    ELSE push_token(loop, tokenize_step(loop.input))

\* n turns of the loop
RECURSIVE tokenize_turns(_, _)
tokenize_turns(loop, n) ==
    IF n = 0 THEN loop
    ELSE IF n = 1 THEN tokenize_turn(loop)
    ELSE LET half == tokenize_turns(loop, n \div 2)
         IN IF ~half.ok THEN half ELSE tokenize_turns(half, n - (n \div 2))

\* a turn that is no Err takes at least one character off the input
tokens_of(loop) == [ok |-> loop.ok, val |-> loop.val]

tokenize(input) ==
    tokens_of(tokenize_turns([ok |-> TRUE, val |-> <<>>, input |-> input], Len(input)))

(***************************************************************************)
(* strings.rs: build_string.  reader.rs.  types.rs: build_map.             *)
(* A reader function returns [ok, val, pos]: the object or the             *)
(* reader::Error, and the index of the next token of the Peekable.         *)
(***************************************************************************)
\* StringBuilder::next on the characters from index i: Some(Ok(c)) or Some(Err(e)),
\* and the index the iterator is left at
StringBuilder_next(src, i) ==
    IF src[i] # "\\" THEN [ok |-> TRUE, val |-> src[i], next |-> i + 1]
    ELSE IF i = Len(src)
    THEN [ok |-> FALSE, val |-> <<"UnexpectedSingleBackslash">>, next |-> i + 1]
    ELSE IF src[i + 1] \in {"\\", "\"", "n"}
    THEN [ok |-> TRUE, val |-> IF src[i + 1] = "n" THEN "\n" ELSE src[i + 1], next |-> i + 2]
    ELSE [ok |-> FALSE, val |-> <<"UnknownEscape", src[i + 1]>>, next |-> i + 2]

\* collect() into a Result: a turn takes the next item, the first Err ends it
build_string_turn(src, built) ==
    IF ~built.ok \/ built.next > Len(src) THEN built
    ELSE LET item == StringBuilder_next(src, built.next)
         IN IF item.ok
            THEN [ok |-> TRUE, val |-> Append(built.val, item.val), next |-> item.next]
            ELSE [ok |-> FALSE, val |-> item.val, next |-> item.next]

RECURSIVE build_string_turns(_, _, _)
build_string_turns(src, built, n) ==
    IF n = 0 THEN built
    ELSE IF n = 1 THEN build_string_turn(src, built)
    ELSE LET half == build_string_turns(src, built, n \div 2)
         IN IF ~half.ok THEN half ELSE build_string_turns(src, half, n - (n \div 2))

build_string(src) ==
    LET built == build_string_turns(src, [ok |-> TRUE, val |-> <<>>, next |-> 1], Len(src))
    IN [ok |-> built.ok, val |-> built.val]

ascii_digit(c) == c \in {"0", "1", "2", "3", "4", "5", "6", "7", "8", "9"}

digit_value(c) ==
    CASE c = "0" -> 0 [] c = "1" -> 1 [] c = "2" -> 2 [] c = "3" -> 3 [] c = "4" -> 4
      [] c = "5" -> 5 [] c = "6" -> 6 [] c = "7" -> 7 [] c = "8" -> 8 [] c = "9" -> 9

\* the checked accumulation of isize::from_str_radix: None on a character that
\* is no digit and on overflow
RECURSIVE accumulate_digits(_, _, _)
accumulate_digits(digits, acc, sign) ==
    IF digits = <<>> THEN Some(acc)
    ELSE IF ~ascii_digit(Head(digits)) THEN None
    ELSE LET next == (acc * 10) + (sign * digit_value(Head(digits)))
         IN IF next < IntMin \/ next > IntMax THEN None
            ELSE accumulate_digits(Tail(digits), next, sign)

from_str_radix(chars) ==
    IF chars = <<>> THEN None
    ELSE IF Head(chars) \in {"+", "-"}
         THEN IF Len(chars) = 1 THEN None
              ELSE accumulate_digits(Tail(chars), 0, IF Head(chars) = "-" THEN -1 ELSE 1)
         ELSE accumulate_digits(chars, 0, 1)

ROk(v, pos) == [ok |-> TRUE, val |-> v, pos |-> pos]
RErr(e, pos) == [ok |-> FALSE, val |-> e, pos |-> pos]

read_int(chars, pos) ==
    LET parsed == from_str_radix(chars)
    IN IF parsed = None THEN RErr(<<"ReadIntError">>, pos) ELSE ROk(Integer(parsed[1]), pos)

read_plain_chars(chars, pos) ==
    LET first == chars[1]
    IN CASE first \in {"+", "-"} ->
                IF Len(chars) >= 2 /\ ascii_digit(chars[2])
                THEN read_int(chars, pos)
                ELSE ROk(Symbol(chars), pos)
         [] ascii_digit(first) -> read_int(chars, pos)
         [] first = ":" -> ROk(Keyword(SliceFrom(chars, 2)), pos)
         [] OTHER ->
                CASE chars = Text["true"] -> ROk(Bool(TRUE), pos)
                  [] chars = Text["false"] -> ROk(Bool(FALSE), pos)
                  [] chars = Text["nil"] -> ROk(Nil, pos)
                  [] OTHER -> ROk(Symbol(chars), pos)

string_literal(built, pos) ==
    IF built.ok THEN ROk(String(built.val), pos)
    ELSE RErr(<<"StringError", built.val>>, pos)

read_string_literal(s, pos) == string_literal(build_string(s), pos)

\* build_map: HashMap::insert of the pairs in order, the last of equal keys stays
RECURSIVE insert_entries(_, _)
insert_entries(map, entries) ==
    IF entries = <<>> THEN [ok |-> TRUE, val |-> map]
    ELSE IF ~is_hashkey(entries[1]) THEN [ok |-> FALSE, val |-> <<"UnhashableKey">>]
    ELSE insert_entries(Insert(map, entries[1], entries[2]), SliceFrom(entries, 3))

build_map(entries) ==
    IF Len(entries) % 2 = 1 THEN [ok |-> FALSE, val |-> <<"MissingValue">>]
    ELSE LET built == insert_entries(<<>>, entries)
         IN IF built.ok THEN [ok |-> TRUE, val |-> Map(built.val)] ELSE built

drop_pos(result) == [ok |-> result.ok, val |-> result.val]

RECURSIVE read_form(_, _), read_sequence(_, _, _, _)

read_unary_operand(tokens, pos, opname) ==
    LET operand == read_form(tokens, pos)
    IN IF operand.ok THEN ROk(List(<<new_symbol(opname), operand.val>>), operand.pos)
       ELSE operand

read_with_meta(tokens, pos) ==
    LET first == read_form(tokens, pos)
    IN IF ~first.ok THEN first
       ELSE LET second == read_form(tokens, first.pos)
            IN IF ~second.ok THEN second
               ELSE ROk(List(<<new_symbol("with-meta"), second.val, first.val>>), second.pos)

read_map(tokens, pos) ==
    LET entries == read_sequence(tokens, pos, "Map", <<>>)
    IN IF ~entries.ok THEN entries
       ELSE LET built == build_map(entries.val)
            IN IF built.ok THEN ROk(built.val, entries.pos)
               ELSE RErr(<<"ReadMapError", built.val>>, entries.pos)

\* reader.next() has taken tokens[pos]
read_form(tokens, pos) ==
    IF pos > Len(tokens) THEN RErr(<<"NoMoreTokens">>, pos)
    ELSE LET token == tokens[pos]
             next == pos + 1
         IN CASE token[1] = "Open" /\ token[2] = "List" ->
                    LET r == read_sequence(tokens, next, "List", <<>>)
                    IN IF r.ok THEN ROk(List(r.val), r.pos) ELSE r
              [] token[1] = "Open" /\ token[2] = "Vector" ->
                    LET r == read_sequence(tokens, next, "Vector", <<>>)
                    IN IF r.ok THEN ROk(Vector(r.val), r.pos) ELSE r
              [] token[1] = "Open" /\ token[2] = "Map" -> read_map(tokens, next)
              [] token[1] = "Close" -> RErr(<<"UnexpectedCloseToken", token[2]>>, next)
              [] token[1] = "PlainChars" -> read_plain_chars(token[2], next)
              [] token[1] = "StringLiteral" -> read_string_literal(token[2], next)
              [] token[1] = "Comment" ->
                    IF next > Len(tokens) THEN RErr(<<"ReadComment">>, next)
                    ELSE read_form(tokens, next)
              [] token[1] = "UnaryOp" /\ token[2] = "Quote" ->
                    read_unary_operand(tokens, next, "quote")
              [] token[1] = "UnaryOp" /\ token[2] = "Quasiquote" ->
                    read_unary_operand(tokens, next, "quasiquote")
              [] token[1] = "UnaryOp" /\ token[2] = "Unquote" ->
                    read_unary_operand(tokens, next, "unquote")
              [] token[1] = "UnaryOp" /\ token[2] = "Deref" ->
                    read_unary_operand(tokens, next, "deref")
              [] token[1] = "UnaryOp" /\ token[2] = "SpliceUnquote" ->
                    read_unary_operand(tokens, next, "splice-unquote")
              [] token[1] = "UnaryOp" /\ token[2] = "WithMeta" -> read_with_meta(tokens, next)

\* the opening token is consumed; pos is the token reader.peek() shows
read_sequence(tokens, pos, closing_token, elements) ==
    IF pos > Len(tokens) THEN RErr(<<"UnbalancedSequence">>, pos)
    ELSE IF tokens[pos][1] = "Close" /\ tokens[pos][2] = closing_token
         THEN ROk(elements, pos + 1)
         ELSE LET element == read_form(tokens, pos)
              IN IF ~element.ok THEN element
                 ELSE read_sequence(tokens, element.pos, closing_token,
                                    Append(elements, element.val))

\* the form read_form makes of the tokens, without the reader's position
read_tokens(tokens) ==
    IF ~tokens.ok THEN [ok |-> FALSE, val |-> <<"TokenizerError", tokens.val>>]
    ELSE drop_pos(read_form(tokens.val, 1))

read_str(input) == read_tokens(tokenize(input))

(***************************************************************************)
(* core.rs: the primitives that do not call back into the evaluator.       *)
(***************************************************************************)
\* the arity field of each PrimitiveFn of CORE
PrimitiveArity(name) ==
    CASE name \in {"+", "*", "list", "vector", "pr-str", "str", "prn", "println", "concat"} ->
            at_least(0)
      [] name \in {"-", "/", "<", "<=", ">", ">=", "=", "reset!", "cons", "nth", "map",
                   "get", "contains?"} -> exactly(2)
      [] name \in {"swap!", "apply", "conj"} -> at_least(2)
      [] name = "dissoc" -> at_least(1)
      [] name = "hash-map" -> Even
      [] name = "assoc" -> Odd
      [] name = "time-ms" -> exactly(0)
      [] OTHER -> exactly(1)

\* CORE: the names Environment::default binds
CORE ==
    {"+", "-", "*", "/", ">", ">=", "<", "<=", "pr-str", "str", "prn", "println",
     "read-string", "slurp", "cons", "concat", "nth", "first", "rest", "apply", "map",
     "seq", "conj", "hash-map", "assoc", "dissoc", "get", "contains?", "keys", "vals",
     "deref", "reset!", "swap!", "nil?", "true?", "false?", "list", "list?", "vector",
     "vector?", "sequential?", "empty?", "count", "=", "atom", "atom?", "symbol",
     "symbol?", "keyword", "keyword?", "map?", "fn?", "macro?", "string?", "number?",
     "throw", "readline", "time-ms"}

\* the index of the first element of seq that P rejects, 0 if there is none
FirstNot(seq, P(_)) ==
    IF \A i \in 1..Len(seq) : P(seq[i]) THEN 0
    ELSE CHOOSE i \in 1..Len(seq) : ~P(seq[i]) /\ \A j \in 1..(i - 1) : P(seq[j])

is_int(obj) == Tag(obj) = "Integer"

RECURSIVE fold_add(_, _), fold_mul(_, _)
fold_add(acc, args) ==
    IF args = <<>> THEN acc ELSE fold_add(Wrap(acc + Payload(Head(args))), Tail(args))

\* wrapping_mul: the product taken modulo 2^IntBits without leaving 32 bits
mul_mod(x, y) ==
    LET a == x % IntModulus
        b == y % IntModulus
        lo == b % 256
        hi == b \div 256
    IN Wrap((((a * hi) % IntModulus) * 256 + a * lo) % IntModulus)

fold_mul(acc, args) ==
    IF args = <<>> THEN acc ELSE fold_mul(mul_mod(acc, Payload(Head(args))), Tail(args))

\* isize division truncates towards zero
wrapping_div(x, y) ==
    LET ax == IF x < 0 THEN -x ELSE x
        ay == IF y < 0 THEN -y ELSE y
        q == ax \div ay
    IN Wrap(IF (x < 0) = (y < 0) THEN q ELSE -q)

comparison_(name, x, y) ==
    CASE name = "<" -> x < y
      [] name = "<=" -> x <= y
      [] name = ">" -> x > y
      [] name = ">=" -> x >= y

print_string_internal(args, mode, sep, to_screen, st) ==
    IF to_screen THEN Ok(Nil, st)
    ELSE Ok(String(Join([i \in 1..Len(args) |-> pr_str(args[i], mode, st)], sep)), st)

nth_internal(seq, orig_index, st) ==
    IF orig_index >= 0 /\ orig_index < Len(seq)
    THEN Ok(seq[orig_index + 1], st)
    ELSE Err(<<"BadIndex", orig_index, 0, Len(seq)>>, st)

RECURSIVE concat_(_, _, _)
concat_(output, args, st) ==
    IF args = <<>> THEN Ok(List(output), st)
    ELSE IF ~is_seq(Head(args)) THEN Err(TypeMismatch("NotASequence"), st)
    ELSE concat_(output \o Payload(Head(args)), Tail(args), st)

RECURSIVE assoc_(_, _, _)
assoc_(map, pairs, st) ==
    IF pairs = <<>> THEN Ok(Map(map), st)
    ELSE IF ~is_hashkey(pairs[1]) THEN Err(TypeMismatch("NotAValidKey"), st)
    ELSE assoc_(Insert(map, pairs[1], pairs[2]), SliceFrom(pairs, 3), st)

RECURSIVE dissoc_(_, _, _)
dissoc_(map, keys, st) ==
    IF keys = <<>> THEN Ok(Map(map), st)
    ELSE IF ~is_hashkey(keys[1]) THEN Err(TypeMismatch("NotAValidKey"), st)
    ELSE dissoc_(Remove(map, keys[1]), Tail(keys), st)

seq_(obj, st) ==
    CASE Tag(obj) \in {"String", "List", "Vector"} /\ Payload(obj) = <<>> -> Ok(Nil, st)
      [] Tag(obj) = "Nil" -> Ok(Nil, st)
      [] Tag(obj) = "String" ->
            Ok(List([i \in 1..Len(Payload(obj)) |-> String(<<Payload(obj)[i]>>)]), st)
      [] Tag(obj) = "List" -> Ok(obj, st)
      [] Tag(obj) = "Vector" -> Ok(List(Payload(obj)), st)
      [] OTHER -> Err(TypeMismatch("NotASequence"), st)

\* a conj that appends to a list as it does to a vector
conj_appending(args, st) ==
    CASE Tag(args[1]) = "List" -> Ok(List(Payload(args[1]) \o Tail(args)), st)
      [] Tag(args[1]) = "Vector" -> Ok(Vector(Payload(args[1]) \o Tail(args)), st)
      [] OTHER -> Err(TypeMismatch("NotASequence"), st)

conj_(args, st) ==
    CASE Tag(args[1]) = "List" ->
            Ok(List(Reverse(Tail(args)) \o Payload(args[1])), st)
      [] Tag(args[1]) = "Vector" ->
            Ok(Vector(Payload(args[1]) \o Tail(args)), st)
      [] OTHER -> Err(TypeMismatch("NotASequence"), st)

\* core.rs read_string: the map_err of read_str
read_string(read, st) ==
    IF read.ok THEN Ok(read.val, st) ELSE Err(<<"ReadError", read.val>>, st)

\* (func.fn_ptr)(args) for every primitive but swap!, apply and map
fn_ptr(name, args, st) ==
    CASE name \in {"+", "-", "*", "/", "<", "<=", ">", ">="} ->
            \* grab_ints
            IF FirstNot(args, is_int) # 0 THEN Err(TypeMismatch("NotAnInt"), st)
            ELSE CASE name = "+" -> Ok(Integer(fold_add(0, args)), st)
                   [] name = "*" -> Ok(Integer(fold_mul(1, args)), st)
                   [] name = "-" -> Ok(Integer(Wrap(Payload(args[1]) - Payload(args[2]))), st)
                   [] name = "/" ->
                        IF Payload(args[2]) = 0 THEN Err(<<"DivideByZero">>, st)
                        ELSE Ok(Integer(wrapping_div(Payload(args[1]), Payload(args[2]))), st)
                   [] OTHER ->
                        Ok(Bool(comparison_(name, Payload(args[1]), Payload(args[2]))), st)
      [] name = "list" -> Ok(List(args), st)
      [] name = "list?" -> Ok(Bool(Tag(args[1]) = "List"), st)
      [] name = "vector" -> Ok(Vector(args), st)
      [] name = "vector?" -> Ok(Bool(Tag(args[1]) = "Vector"), st)
      [] name = "sequential?" -> Ok(Bool(is_seq(args[1])), st)
      [] name = "empty?" ->
            IF is_seq(args[1]) THEN Ok(Bool(Payload(args[1]) = <<>>), st)
            ELSE Err(TypeMismatch("NotASequence"), st)
      [] name = "count" ->
            CASE is_seq(args[1]) -> Ok(Integer(Len(Payload(args[1]))), st)
              [] Tag(args[1]) = "Nil" -> Ok(Integer(0), st)
              [] OTHER -> Err(TypeMismatch("NotASequence"), st)
      [] name = "=" -> Ok(Bool(eq(args[1], args[2])), st)
      [] name = "pr-str" -> print_string_internal(args, Readable, Text[" "], FALSE, st)
      [] name = "str" -> print_string_internal(args, Directly, <<>>, FALSE, st)
      [] name = "prn" -> print_string_internal(args, Readable, Text[" "], TRUE, st)
      [] name = "println" -> print_string_internal(args, Directly, Text[" "], TRUE, st)
      [] name = "read-string" ->
            IF Tag(args[1]) # "String" THEN Err(TypeMismatch("NotAString"), st)
            ELSE read_string(read_str(Payload(args[1])), st)
      [] name = "atom" ->
            Ok(Atom(Len(st.atoms) + 1), [st EXCEPT !.atoms = Append(@, args[1])])
      [] name = "atom?" -> Ok(Bool(Tag(args[1]) = "Atom"), st)
      [] name = "deref" ->
            IF Tag(args[1]) # "Atom" THEN Err(TypeMismatch("NotAnAtom"), st)
            ELSE Ok(st.atoms[Payload(args[1])], st)
      [] name = "reset!" ->
            IF Tag(args[1]) # "Atom" THEN Err(TypeMismatch("NotAnAtom"), st)
            ELSE Ok(args[2], [st EXCEPT !.atoms[Payload(args[1])] = args[2]])
      [] name = "cons" ->
            IF ~is_seq(args[2]) THEN Err(TypeMismatch("NotASequence"), st)
            ELSE Ok(List(<<args[1]>> \o Payload(args[2])), st)
      [] name = "concat" -> concat_(<<>>, args, st)
      [] name = "nth" ->
            IF ~is_seq(args[1]) THEN Err(TypeMismatch("NotASequence"), st)
            ELSE IF ~is_int(args[2]) THEN Err(TypeMismatch("NotAnInt"), st)
            ELSE nth_internal(Payload(args[1]), Payload(args[2]), st)
      [] name = "first" ->
            IF Tag(args[1]) = "Nil" THEN Ok(Nil, st)
            ELSE IF ~is_seq(args[1]) THEN Err(TypeMismatch("NotASequence"), st)
            ELSE IF Payload(args[1]) = <<>> THEN Ok(Nil, st)
            ELSE nth_internal(Payload(args[1]), 0, st)
      [] name = "rest" ->
            IF Tag(args[1]) = "Nil" THEN Ok(new_list, st)
            ELSE IF ~is_seq(args[1]) THEN Err(TypeMismatch("NotASequence"), st)
            ELSE IF Payload(args[1]) = <<>> THEN Ok(new_list, st)
            ELSE Ok(List(Tail(Payload(args[1]))), st)
      [] name = "symbol" ->
            IF Tag(args[1]) # "String" THEN Err(TypeMismatch("NotAString"), st)
            ELSE Ok(Symbol(Payload(args[1])), st)
      [] name = "symbol?" -> Ok(Bool(Tag(args[1]) = "Symbol"), st)
      [] name = "keyword" ->
            CASE Tag(args[1]) = "String" -> Ok(Keyword(Payload(args[1])), st)
              [] Tag(args[1]) = "Keyword" -> Ok(args[1], st)
              [] OTHER -> Err(TypeMismatch("NotIntoKeyword"), st)
      [] name = "keyword?" -> Ok(Bool(Tag(args[1]) = "Keyword"), st)
      [] name = "map?" -> Ok(Bool(Tag(args[1]) = "Map"), st)
      [] name = "nil?" -> Ok(Bool(Tag(args[1]) = "Nil"), st)
      [] name = "true?" -> Ok(Bool(Tag(args[1]) = "Bool" /\ Payload(args[1])), st)
      [] name = "false?" -> Ok(Bool(Tag(args[1]) = "Bool" /\ ~Payload(args[1])), st)
      [] name = "seq" -> seq_(args[1], st)
      [] name = "conj" -> conj_(args, st)
      [] name = "hash-map" ->
            LET built == build_map(args)
            IN IF built.ok THEN Ok(built.val, st) ELSE Err(TypeMismatch("NotAValidKey"), st)
      [] name = "assoc" ->
            IF Tag(args[1]) # "Map" THEN Err(TypeMismatch("NotAMap"), st)
            ELSE assoc_(Payload(args[1]), Tail(args), st)
      [] name = "dissoc" ->
            IF Tag(args[1]) # "Map" THEN Err(TypeMismatch("NotAMap"), st)
            ELSE dissoc_(Payload(args[1]), Tail(args), st)
      [] name = "get" ->
            IF Tag(args[1]) = "Nil" THEN Ok(Nil, st)
            ELSE IF Tag(args[1]) # "Map" THEN Err(TypeMismatch("NotAMap"), st)
            ELSE IF ~is_hashkey(args[2]) THEN Err(TypeMismatch("NotAValidKey"), st)
            ELSE IF args[2] \in DOMAIN Payload(args[1])
                 THEN Ok(Payload(args[1])[args[2]], st)
                 ELSE Ok(Nil, st)
      [] name = "contains?" ->
            IF Tag(args[1]) # "Map" THEN Err(TypeMismatch("NotAMap"), st)
            ELSE IF ~is_hashkey(args[2]) THEN Err(TypeMismatch("NotAValidKey"), st)
            ELSE Ok(Bool(args[2] \in DOMAIN Payload(args[1])), st)
      [] name = "keys" ->
            IF Tag(args[1]) # "Map" THEN Err(TypeMismatch("NotAMap"), st)
            ELSE Ok(List(iter_keys(Payload(args[1]), st.seed)), st)
      [] name = "vals" ->
            IF Tag(args[1]) # "Map" THEN Err(TypeMismatch("NotAMap"), st)
            ELSE LET keys == iter_keys(Payload(args[1]), st.seed)
                 IN Ok(List([i \in 1..Len(keys) |-> Payload(args[1])[keys[i]]]), st)
      [] name = "throw" -> Err(<<"UserException", args[1]>>, st)
      [] name = "string?" -> Ok(Bool(Tag(args[1]) = "String"), st)
      [] name = "number?" -> Ok(Bool(Tag(args[1]) = "Integer"), st)
      [] name = "fn?" -> Ok(Bool(callable(args[1]) /\ ~is_macro(args[1])), st)
      [] name = "macro?" -> Ok(Bool(is_macro(args[1])), st)
      \* slurp, readline, time-ms: the file system, the terminal and the clock
      [] OTHER -> Err(Unmodelled(name), st)

\* types.rs: ClosureParameters::new and arity
is_ampersand(s) == s = Text["&"]

ClosureParameters_new(symbols) ==
    LET ampersand_count == Cardinality({i \in 1..Len(symbols) : is_ampersand(symbols[i])})
    IN CASE ampersand_count = 0 ->
                [ok |-> TRUE, val |-> [positional |-> symbols, others |-> None]]
         [] ampersand_count = 1 ->
                IF Len(symbols) < 2
                THEN [ok |-> FALSE, val |-> <<"TooShortForAmpersand">>]
                ELSE IF ~is_ampersand(symbols[Len(symbols) - 1])
                THEN [ok |-> FALSE, val |-> <<"AmpersandPositionNotPenultimate">>]
                ELSE [ok |-> TRUE,
                      val |-> [positional |-> SubSeq(symbols, 1, Len(symbols) - 2),
                               others |-> Some(symbols[Len(symbols)])]]
         [] OTHER -> [ok |-> FALSE, val |-> <<"TooManyAmpersands(", ampersand_count>>]

parameters_arity(parameters) ==
    IF parameters.others = None
    THEN exactly(Len(parameters.positional))
    ELSE at_least(Len(parameters.positional))

(***************************************************************************)
(* evaluator.rs and special_forms.rs.  The host call stack is explicit: a  *)
(* machine m = [ctl, stack, st] is either about to enter a Rust function,  *)
(* ctl = <<"call", fn, args>>, or is returning a Result to the caller on   *)
(* top of the stack, ctl = <<"return", [ok, val]>>.  A frame of the stack  *)
(* holds the name of its function, the point at which it waits for its     *)
(* callee, and the locals it still needs.  For a function f of the source, *)
(* f_call is f from its entry to its first call or its return, and         *)
(* f_resume is f from the return of a callee to its next call or its       *)
(* return.  st.depth counts the frames of EVAL on the stack, st.maxDepth   *)
(* is the largest it has been.                                             *)
(***************************************************************************)
Max(a, b) == IF a >= b THEN a ELSE b

Call(fn, args, stack, st) == [ctl |-> <<"call", fn, args>>, stack |-> stack, st |-> st]

\* r = [ok, val, st] is returned to the frame on top of stack
Return(r, stack) ==
    [ctl |-> <<"return", [ok |-> r.ok, val |-> r.val]>>, stack |-> stack, st |-> r.st]

Push(stack, frame) == Append(stack, frame)

\* env.set of the positional parameters zipped with the arguments
RECURSIVE set_positional(_, _, _, _)
set_positional(st, env, keys, values) ==
    IF keys = <<>> THEN st
    ELSE set_positional(env_set(st, env, Head(keys), Head(values)), env,
                        Tail(keys), Tail(values))

\* a make_closure_env that binds the rest parameter to all the arguments
make_closure_env_rest_all(func, args, st) ==
    LET check == validate_for(parameters_arity(func.parameters), Len(args), Text["closure"])
    IN IF check # None THEN Err(check[1], st)
       ELSE LET st1 == spawn_from(st, func.parent)
                env == spawned(st1)
                n == Len(func.parameters.positional)
                st2 == set_positional(st1, env, func.parameters.positional, SubSeq(args, 1, n))
                st3 == IF func.parameters.others # None
                       THEN env_set(st2, env, func.parameters.others[1], List(args))
                       ELSE st2
            IN Ok(env, st3)

\* Ok(env): val is the new frame
make_closure_env(func, args, st) ==
    LET check == validate_for(parameters_arity(func.parameters), Len(args), Text["closure"])
    IN IF check # None THEN Err(check[1], st)
       ELSE LET st1 == spawn_from(st, func.parent)
                env == spawned(st1)
                n == Len(func.parameters.positional)
                st2 == set_positional(st1, env, func.parameters.positional, SubSeq(args, 1, n))
                st3 == IF func.parameters.others # None
                       THEN env_set(st2, env, func.parameters.others[1],
                                    List(SliceFrom(args, n + 1)))
                       ELSE st2
            IN Ok(env, st3)

\* ApplyOutcome
Finished(obj) == <<"Finished", obj>>
EvaluateFurther(ast, env) == <<"EvaluateFurther", ast, env>>

\* an is_macro_call that takes no closure for a macro
is_macro_call_never(ast, env, st) == None

\* Option<&MalSymbol>: the name at the head of ast when it is bound to a macro
is_macro_call(ast, env, st) ==
    IF Tag(ast) = "List" /\ Payload(ast) # <<>> /\ Tag(Payload(ast)[1]) = "Symbol"
    THEN LET symbol == Payload(Payload(ast)[1])
             value == env_get(st, env, symbol)
         IN IF value # None /\ is_macro(value[1]) THEN Some(symbol) ELSE None
    ELSE None

\* an apply_fn whose closure captures the root frame in place of env
apply_fn_capturing_root(args, env, st) ==
    IF Len(args) # 2 THEN Err(<<"Fn", <<"WrongArgCount(", Len(args)>>>>, st)
    ELSE IF ~is_seq(args[1]) THEN Err(<<"Fn", <<"ParametersNotGivenAsList">>>>, st)
    ELSE IF \E i \in 1..Len(Payload(args[1])) : Tag(Payload(args[1])[i]) # "Symbol"
    THEN Err(<<"Fn", <<"ParameterNotASymbol">>>>, st)
    ELSE Ok(Closure([parameters |->
                        ClosureParameters_new([i \in 1..Len(Payload(args[1])) |->
                                                  Payload(Payload(args[1])[i])]).val,
                     body |-> args[2], parent |-> RootEnv, is_macro |-> FALSE]), st)

apply_fn(args, env, st) ==
    IF Len(args) # 2 THEN Err(<<"Fn", <<"WrongArgCount(", Len(args)>>>>, st)
    ELSE IF ~is_seq(args[1]) THEN Err(<<"Fn", <<"ParametersNotGivenAsList">>>>, st)
    ELSE LET given == Payload(args[1])
         IN IF \E i \in 1..Len(given) : Tag(given[i]) # "Symbol"
            THEN Err(<<"Fn", <<"ParameterNotASymbol">>>>, st)
            ELSE LET parameters ==
                         ClosureParameters_new([i \in 1..Len(given) |-> Payload(given[i])])
                 IN IF ~parameters.ok
                    THEN Err(<<"Fn", <<"BadVariadic(", parameters.val>>>>, st)
                    ELSE Ok(Closure([parameters |-> parameters.val, body |-> args[2],
                                     parent |-> env, is_macro |-> FALSE]), st)

\* std::result::Result<MalObject, BadArgCount> is [ok, val]
RECURSIVE apply_quasiquote(_), quasiquote_internal(_)
\* apply_quasiquote with as_list in place of as_seq: a vector is quoted whole
apply_quasiquote_of_lists(ast) ==
    IF Tag(ast) # "List" THEN [ok |-> TRUE, val |-> List(<<new_symbol("quote"), ast>>)]
    ELSE quasiquote_internal(Payload(ast))

apply_quasiquote(ast) ==
    IF ~is_seq(ast) THEN [ok |-> TRUE, val |-> List(<<new_symbol("quote"), ast>>)]
    ELSE quasiquote_internal(Payload(ast))

quasiquote_internal(ast) ==
    IF ast = <<>> THEN [ok |-> TRUE, val |-> new_list]
    ELSE IF eq(ast[1], new_symbol("unquote"))
    THEN LET check == validate_for(exactly(2), Len(ast), Text["unquote"])
         IN IF check # None THEN [ok |-> FALSE, val |-> check[1]]
            ELSE [ok |-> TRUE, val |-> ast[2]]
    ELSE IF is_seq(ast[1]) /\ Payload(ast[1]) # <<>>
            /\ eq(Payload(ast[1])[1], new_symbol("splice-unquote"))
    THEN LET ast_0_list == Payload(ast[1])
             check == validate_for(at_least(1), Len(ast_0_list) - 1,
                                   Text["splice-unquote argument"])
         IN IF check # None THEN [ok |-> FALSE, val |-> check[1]]
            ELSE LET rest == quasiquote_internal(Tail(ast))
                 IN IF ~rest.ok THEN rest
                    ELSE [ok |-> TRUE,
                          val |-> List(<<new_symbol("concat"), ast_0_list[2], rest.val>>)]
    ELSE LET first == apply_quasiquote(ast[1])
         IN IF ~first.ok THEN first
            ELSE LET rest == quasiquote_internal(Tail(ast))
                 IN IF ~rest.ok THEN rest
                    ELSE [ok |-> TRUE,
                          val |-> List(<<new_symbol("cons"), first.val, rest.val>>)]

\* Result<(exception_name, exception_handler)>, None when args has no second form
catch_data(args) ==
    IF Len(args) < 2 THEN None
    ELSE LET obj == args[2]
         IN IF Tag(obj) # "List" THEN Some([ok |-> FALSE, val |-> TypeMismatch("NotAList")])
            ELSE LET data == Payload(obj)
                     check == validate_for(exactly(3), Len(data), Text["try* catch list"])
                 IN IF check # None THEN Some([ok |-> FALSE, val |-> check[1]])
                    ELSE IF ~eq(data[1], new_symbol("catch*"))
                    THEN Some([ok |-> FALSE, val |-> <<"MissingCatchFromTry">>])
                    ELSE IF Tag(data[2]) # "Symbol"
                    THEN Some([ok |-> FALSE, val |-> TypeMismatch("NotASymbol")])
                    ELSE Some([ok |-> TRUE, val |-> <<Payload(data[2]), data[3]>>])

SpecialForms ==
    {Text["def!"], Text["defmacro!"], Text["let*"], Text["do"], Text["if"], Text["fn*"],
     Text["quote"], Text["quasiquote"], Text["macroexpand"], Text["try*"]}


\* an Err that stands for the end of the model, which no catch* may hide
beyond_model(e) == e[1] = "Unmodelled"

\* a turn of the loop of EVAL starts: the frame of EVAL waits for macroexpand
EVAL_loop(ast, env, stack, st) ==
    Call("macroexpand", <<ast, env>>,
         Push(stack, [fn |-> "EVAL", at |-> "macroexpand", env |-> env]), st)

EVAL_call(orig_ast, orig_env, stack, st) ==
    EVAL_loop(orig_ast, orig_env, stack,
              [st EXCEPT !.depth = @ + 1, !.maxDepth = Max(@, st.depth + 1)])

\* EVAL returns r: its frame leaves the stack
EVAL_return(r, stack) == Return([r EXCEPT !.st.depth = @ - 1], stack)

\* the arms of EVAL for the special form name
EVAL_special_form(name, args, env, stack, st) ==
    LET wait(at) == Push(stack, [fn |-> "EVAL", at |-> at, env |-> env])
        bad(arity, text) == validate_for(arity, Len(args), text)
    IN CASE name = Text["def!"] -> Call("apply_def", <<args, env, FALSE>>, wait("return"), st)
         [] name = Text["defmacro!"] ->
                Call("apply_def", <<args, env, TRUE>>, wait("return"), st)
         [] name = Text["let*"] -> Call("apply_let", <<args, env>>, wait("continue"), st)
         [] name = Text["do"] -> Call("apply_do", <<args, env>>, wait("continue_ast"), st)
         [] name = Text["if"] -> Call("apply_if", <<args, env>>, wait("continue_ast"), st)
         [] name = Text["fn*"] -> EVAL_return(apply_fn(args, env, st), stack)
         [] name = Text["quote"] ->
                IF bad(exactly(1), Text["quote"]) # None
                THEN EVAL_return(Err(bad(exactly(1), Text["quote"])[1], st), stack)
                ELSE EVAL_return(Ok(args[1], st), stack)
         [] name = Text["quasiquote"] ->
                IF bad(exactly(1), Text["quasiquote"]) # None
                THEN EVAL_return(Err(bad(exactly(1), Text["quasiquote"])[1], st), stack)
                ELSE LET rewritten == apply_quasiquote(args[1])
                     IN IF rewritten.ok THEN EVAL_loop(rewritten.val, env, stack, st)
                        ELSE EVAL_return(Err(rewritten.val, st), stack)
         [] name = Text["macroexpand"] ->
                IF bad(exactly(1), Text["macroexpand"]) # None
                THEN EVAL_return(Err(bad(exactly(1), Text["macroexpand"])[1], st), stack)
                ELSE Call("macroexpand", <<args[1], env>>, wait("return"), st)
         [] name = Text["try*"] ->
                IF bad(Between(1, 2), Text["try*"]) # None
                THEN EVAL_return(Err(bad(Between(1, 2), Text["try*"])[1], st), stack)
                ELSE Call("apply_try", <<args, env>>, wait("continue"), st)

\* match &ast, after macroexpand
EVAL_match(ast, env, stack, st) ==
    LET wait(at) == Push(stack, [fn |-> "EVAL", at |-> at, env |-> env])
    IN CASE Tag(ast) # "List" -> Call("evaluate_ast", <<ast, env>>, wait("return"), st)
         [] Tag(ast) = "List" /\ Payload(ast) = <<>> -> EVAL_return(Ok(new_list, st), stack)
         [] OTHER ->
                LET argv == Payload(ast)
                IN IF Tag(argv[1]) = "Symbol" /\ Payload(argv[1]) \in SpecialForms
                   THEN EVAL_special_form(Payload(argv[1]), Tail(argv), env, stack, st)
                   ELSE Call("evaluate_sequence_elementwise", <<argv, env>>,
                             wait("evaluated"), st)

EVAL_resume(frame, result, stack, st) ==
    IF ~result.ok THEN EVAL_return(Err(result.val, st), stack)
    ELSE CASE frame.at = "macroexpand" -> EVAL_match(result.val, frame.env, stack, st)
           [] frame.at = "return" -> EVAL_return(Ok(result.val, st), stack)
           \* Ok((new_ast, new_env))
           [] frame.at = "continue" -> EVAL_loop(result.val[1], result.val[2], stack, st)
           [] frame.at = "continue_ast" -> EVAL_loop(result.val, frame.env, stack, st)
           [] frame.at = "evaluated" ->
                Call("apply", <<Head(result.val), Tail(result.val)>>,
                     Push(stack, [fn |-> "EVAL", at |-> "applied", env |-> frame.env]), st)
           [] frame.at = "applied" ->
                IF result.val[1] = "Finished" THEN EVAL_return(Ok(result.val[2], st), stack)
                ELSE EVAL_loop(result.val[2], result.val[3], stack, st)

\* a turn of the while loop of macroexpand
macroexpand_call(ast, env, stack, st) ==
    LET symbol == is_macro_call(ast, env, st)
    IN IF symbol = None THEN Return(Ok(ast, st), stack)
       ELSE Call("apply_fully", <<env_get(st, env, symbol[1])[1], Tail(Payload(ast))>>,
                 Push(stack, [fn |-> "macroexpand", env |-> env]), st)

\* macroexpand with an if in place of its while: one expansion and no more
macroexpand_once(frame, result, stack, st) ==
    IF ~result.ok THEN Return(Err(result.val, st), stack)
    ELSE Return(Ok(result.val, st), stack)

macroexpand_resume(frame, result, stack, st) ==
    IF ~result.ok THEN Return(Err(result.val, st), stack)
    ELSE macroexpand_call(result.val, frame.env, stack, st)

apply_fully_call(callable_, args, stack, st) ==
    Call("apply", <<callable_, args>>, Push(stack, [fn |-> "apply_fully", at |-> "apply"]), st)

apply_fully_resume(frame, result, stack, st) ==
    IF ~result.ok THEN Return(Err(result.val, st), stack)
    ELSE IF frame.at = "EVAL" \/ result.val[1] = "Finished"
    THEN Return(Ok(IF frame.at = "EVAL" THEN result.val ELSE result.val[2], st), stack)
    ELSE Call("EVAL", <<result.val[2], result.val[3]>>,
              Push(stack, [fn |-> "apply_fully", at |-> "EVAL"]), st)

\* an apply whose eval evaluates in the newest frame in place of the root
apply_call_eval_in_newest(callable_, args, stack, st) ==
    CASE Tag(callable_) = "Primitive" ->
            Call("call_primitive", <<Payload(callable_), args>>,
                 Push(stack, [fn |-> "apply"]), st)
      [] Tag(callable_) = "Closure" ->
            LET f == Payload(callable_)
                env == make_closure_env(f, args, st)
            IN IF env.ok THEN Return(Ok(EvaluateFurther(f.body, env.val), env.st), stack)
               ELSE Return(env, stack)
      [] Tag(callable_) = "Eval" ->
            LET check == validate_for(exactly(1), Len(args), Text["eval"])
            IN IF check # None THEN Return(Err(check[1], st), stack)
               ELSE Return(Ok(EvaluateFurther(args[1], Len(st.envs)), st), stack)
      [] OTHER -> Return(Err(TypeMismatch("NotCallable"), st), stack)

apply_call(callable_, args, stack, st) ==
    CASE Tag(callable_) = "Primitive" ->
            Call("call_primitive", <<Payload(callable_), args>>,
                 Push(stack, [fn |-> "apply"]), st)
      [] Tag(callable_) = "Closure" ->
            LET f == Payload(callable_)
                env == make_closure_env(f, args, st)
            IN IF env.ok THEN Return(Ok(EvaluateFurther(f.body, env.val), env.st), stack)
               ELSE Return(env, stack)
      [] Tag(callable_) = "Eval" ->
            LET check == validate_for(exactly(1), Len(args), Text["eval"])
            IN IF check # None THEN Return(Err(check[1], st), stack)
               ELSE Return(Ok(EvaluateFurther(args[1], Payload(callable_)), st), stack)
      [] OTHER -> Return(Err(TypeMismatch("NotCallable"), st), stack)

\* call_primitive(f, args).map(ApplyOutcome::Finished)
apply_resume(frame, result, stack, st) ==
    IF ~result.ok THEN Return(Err(result.val, st), stack)
    ELSE Return(Ok(Finished(result.val), st), stack)

call_primitive_call(func, args, stack, st) ==
    LET check == validate_for(PrimitiveArity(func), Len(args), Text[func])
    IN IF check # None THEN Return(Err(check[1], st), stack)
       ELSE IF func \in {"swap!", "apply", "map"}
       THEN Call(CASE func = "swap!" -> "swap_" [] func = "apply" -> "apply_" [] OTHER -> "map_",
                 <<args>>, Push(stack, [fn |-> "call_primitive"]), st)
       ELSE Return(fn_ptr(func, args, st), stack)

call_primitive_resume(frame, result, stack, st) ==
    Return([ok |-> result.ok, val |-> result.val, st |-> st], stack)

\* core.rs: swap_, apply_ and map_, which call apply_fully
\* a swap_ that takes the payload out of the cell while the callable runs
swap__call_taking_payload(swap_args, stack, st) ==
    IF Tag(swap_args[1]) # "Atom" THEN Return(Err(TypeMismatch("NotAnAtom"), st), stack)
    ELSE IF ~callable(swap_args[2]) THEN Return(Err(TypeMismatch("NotCallable"), st), stack)
    ELSE Call("apply_fully",
              <<swap_args[2], <<st.atoms[Payload(swap_args[1])]>> \o SliceFrom(swap_args, 3)>>,
              Push(stack, [fn |-> "swap_", atom |-> Payload(swap_args[1])]),
              [st EXCEPT !.atoms[Payload(swap_args[1])] = Nil])

swap__call(swap_args, stack, st) ==
    IF Tag(swap_args[1]) # "Atom" THEN Return(Err(TypeMismatch("NotAnAtom"), st), stack)
    ELSE IF ~callable(swap_args[2]) THEN Return(Err(TypeMismatch("NotCallable"), st), stack)
    ELSE Call("apply_fully",
              <<swap_args[2], <<st.atoms[Payload(swap_args[1])]>> \o SliceFrom(swap_args, 3)>>,
              Push(stack, [fn |-> "swap_", atom |-> Payload(swap_args[1])]), st)

\* a swap_ that replaces the payload by what apply_fully gave, Ok or Err, and
\* only then looks at which it was
swap__resume_replace_first(frame, result, stack, st) ==
    Return([ok |-> result.ok, val |-> result.val,
            st |-> [st EXCEPT !.atoms[frame.atom] = result.val]], stack)

\* a swap_ that returns what the callable gave and leaves the atom as it was
swap__resume_without_replace(frame, result, stack, st) ==
    IF ~result.ok THEN Return(Err(result.val, st), stack)
    ELSE Return(Ok(result.val, st), stack)

swap__resume(frame, result, stack, st) ==
    IF ~result.ok THEN Return(Err(result.val, st), stack)
    ELSE Return(Ok(result.val, [st EXCEPT !.atoms[frame.atom] = result.val]), stack)

apply__call(args, stack, st) ==
    IF ~is_seq(args[Len(args)]) THEN Return(Err(TypeMismatch("NotASequence"), st), stack)
    ELSE Call("apply_fully",
              <<args[1], SubSeq(args, 2, Len(args) - 1) \o Payload(args[Len(args)])>>,
              Push(stack, [fn |-> "apply_"]), st)

apply__resume(frame, result, stack, st) ==
    Return([ok |-> result.ok, val |-> result.val, st |-> st], stack)

\* the iterator of map_ is at chunk i of seq, result holds what it has yielded
map__next(f, seq, i, mapped, stack, st) ==
    IF i > Len(seq) THEN Return(Ok(List(mapped), st), stack)
    ELSE Call("apply_fully", <<f, <<seq[i]>>>>,
              Push(stack, [fn |-> "map_", f |-> f, seq |-> seq, i |-> i, mapped |-> mapped]),
              st)

map__call(args, stack, st) ==
    IF ~is_seq(args[2]) THEN Return(Err(TypeMismatch("NotASequence"), st), stack)
    ELSE map__next(args[1], Payload(args[2]), 1, <<>>, stack, st)

map__resume(frame, result, stack, st) ==
    IF ~result.ok THEN Return(Err(result.val, st), stack)
    ELSE map__next(frame.f, frame.seq, frame.i + 1, Append(frame.mapped, result.val),
                   stack, st)

\* seq.iter().map(|obj| EVAL(obj, env)).collect(): the iterator is at element i
evaluate_sequence_elementwise_next(seq, env, i, mapped, stack, st) ==
    IF i > Len(seq) THEN Return(Ok(mapped, st), stack)
    ELSE Call("EVAL", <<seq[i], env>>,
              Push(stack, [fn |-> "evaluate_sequence_elementwise", seq |-> seq, env |-> env,
                           i |-> i, mapped |-> mapped]), st)

evaluate_sequence_elementwise_call(seq, env, stack, st) ==
    evaluate_sequence_elementwise_next(seq, env, 1, <<>>, stack, st)

\* an elementwise evaluation that goes on to the next element after an error
evaluate_sequence_elementwise_resume_past_error(frame, result, stack, st) ==
    evaluate_sequence_elementwise_next(frame.seq, frame.env, frame.i + 1,
                                       Append(frame.mapped, IF result.ok THEN result.val ELSE Nil),
                                       stack, st)

evaluate_sequence_elementwise_resume(frame, result, stack, st) ==
    IF ~result.ok THEN Return(Err(result.val, st), stack)
    ELSE evaluate_sequence_elementwise_next(frame.seq, frame.env, frame.i + 1,
                                            Append(frame.mapped, result.val), stack, st)

\* the for loop of evaluate_map is at key i of the iteration order keys
evaluate_map_next(map, keys, env, i, evaluated, stack, st) ==
    IF i > Len(keys) THEN Return(Ok(Map(evaluated), st), stack)
    ELSE Call("EVAL", <<map[keys[i]], env>>,
              Push(stack, [fn |-> "evaluate_map", map |-> map, keys |-> keys, env |-> env,
                           i |-> i, evaluated |-> evaluated]), st)

evaluate_map_call(map, env, stack, st) ==
    evaluate_map_next(map, iter_keys(map, st.seed), env, 1, <<>>, stack, st)

evaluate_map_resume(frame, result, stack, st) ==
    IF ~result.ok THEN Return(Err(result.val, st), stack)
    ELSE evaluate_map_next(frame.map, frame.keys, frame.env, frame.i + 1,
                           Insert(frame.evaluated, frame.keys[frame.i], result.val),
                           stack, st)

evaluate_ast_call(ast, env, stack, st) ==
    CASE Tag(ast) = "Symbol" -> Return(fetch(st, env, Payload(ast)), stack)
      [] Tag(ast) \in {"List", "Vector"} ->
            Call("evaluate_sequence_elementwise", <<Payload(ast), env>>,
                 Push(stack, [fn |-> "evaluate_ast", wrap |-> Tag(ast)]), st)
      [] Tag(ast) = "Map" ->
            Call("evaluate_map", <<Payload(ast), env>>,
                 Push(stack, [fn |-> "evaluate_ast", wrap |-> "Map"]), st)
      [] OTHER -> Return(Ok(ast, st), stack)

evaluate_ast_resume(frame, result, stack, st) ==
    IF ~result.ok THEN Return(Err(result.val, st), stack)
    ELSE Return(Ok(IF frame.wrap = "Map" THEN result.val ELSE <<frame.wrap, result.val>>, st),
                stack)

apply_def_call(args, env, make_macro, stack, st) ==
    IF Len(args) # 2 THEN Return(Err(<<"Def", <<"WrongArgCount(", Len(args)>>>>, st), stack)
    ELSE IF Tag(args[1]) # "Symbol" THEN Return(Err(<<"Def", <<"KeyNotASymbol">>>>, st), stack)
    ELSE Call("EVAL", <<args[2], env>>,
              Push(stack, [fn |-> "apply_def", key |-> Payload(args[1]), env |-> env,
                           make_macro |-> make_macro]), st)

\* a defmacro! that sets is_macro in the closure it was given, so that every
\* frame and atom that holds the closure holds a macro
apply_def_resume_tweaking_given(frame, result, stack, st) ==
    IF ~result.ok THEN Return(Err(result.val, st), stack)
    ELSE IF frame.make_macro /\ Tag(result.val) # "Closure"
    THEN Return(Err(TypeMismatch("NotAClosure"), st), stack)
    ELSE LET value == IF frame.make_macro
                      THEN Closure([Payload(result.val) EXCEPT !.is_macro = TRUE])
                      ELSE result.val
             tweaked(held) == IF frame.make_macro /\ held = result.val THEN value ELSE held
             shared ==
                 [st EXCEPT
                    !.envs = [e \in DOMAIN st.envs |->
                                 [st.envs[e] EXCEPT
                                    !.data = [k \in DOMAIN st.envs[e].data |->
                                                 tweaked(st.envs[e].data[k])]]],
                    !.atoms = [c \in DOMAIN st.atoms |-> tweaked(st.atoms[c])]]
         IN Return(Ok(value, env_set(shared, frame.env, frame.key, value)), stack)

\* a def! that binds in the root frame whatever frame it is evaluated in
apply_def_resume_in_root(frame, result, stack, st) ==
    IF ~result.ok THEN Return(Err(result.val, st), stack)
    ELSE IF frame.make_macro /\ Tag(result.val) # "Closure"
    THEN Return(Err(TypeMismatch("NotAClosure"), st), stack)
    ELSE LET value == IF frame.make_macro
                      THEN Closure([Payload(result.val) EXCEPT !.is_macro = TRUE])
                      ELSE result.val
         IN Return(Ok(value, env_set(st, RootEnv, frame.key, value)), stack)

apply_def_resume(frame, result, stack, st) ==
    IF ~result.ok THEN Return(Err(result.val, st), stack)
    ELSE IF frame.make_macro /\ Tag(result.val) # "Closure"
    THEN Return(Err(TypeMismatch("NotAClosure"), st), stack)
    ELSE LET value == IF frame.make_macro
                      THEN Closure([Payload(result.val) EXCEPT !.is_macro = TRUE])
                      ELSE result.val
         IN Return(Ok(value, env_set(st, frame.env, frame.key, value)), stack)

\* a bind that evaluates the value in the parent of the child frame
make_let_environment_next_in_parent(bindings, child, i, stack, st) ==
    IF i > Len(bindings) THEN Return(Ok(child, st), stack)
    ELSE IF Tag(bindings[i]) # "Symbol"
    THEN Return(Err(<<"Let", <<"BindToNonSymbol">>>>, st), stack)
    ELSE Call("EVAL", <<bindings[i + 1], st.envs[child].parent>>,
              Push(stack, [fn |-> "make_let_environment", bindings |-> bindings,
                           child |-> child, i |-> i]), st)

\* the iterator over the tuples of bindings is at the pair that starts at index i
make_let_environment_next(bindings, child, i, stack, st) ==
    IF i > Len(bindings) THEN Return(Ok(child, st), stack)
    ELSE IF Tag(bindings[i]) # "Symbol"
    THEN Return(Err(<<"Let", <<"BindToNonSymbol">>>>, st), stack)
    ELSE Call("EVAL", <<bindings[i + 1], child>>,
              Push(stack, [fn |-> "make_let_environment", bindings |-> bindings,
                           child |-> child, i |-> i]), st)

make_let_environment_call(bindings, parent, stack, st) ==
    make_let_environment_next(bindings, spawned(spawn_from(st, parent)), 1, stack,
                              spawn_from(st, parent))

make_let_environment_resume(frame, result, stack, st) ==
    IF ~result.ok THEN Return(Err(result.val, st), stack)
    ELSE make_let_environment_next(
             frame.bindings, frame.child, frame.i + 2, stack,
             env_set(st, frame.child, Payload(frame.bindings[frame.i]), result.val))

apply_let_call(args, env, stack, st) ==
    IF Len(args) # 2 THEN Return(Err(<<"Let", <<"WrongArgCount(", Len(args)>>>>, st), stack)
    ELSE IF ~is_seq(args[1])
    THEN Return(Err(<<"Let", <<"BindingsNotSequence">>>>, st), stack)
    ELSE IF Len(Payload(args[1])) % 2 # 0
    THEN Return(Err(<<"Let", <<"BindingsOddLength">>>>, st), stack)
    ELSE Call("make_let_environment", <<Payload(args[1]), env>>,
              Push(stack, [fn |-> "apply_let", obj |-> args[2]]), st)

\* Ok((obj.clone(), child))
apply_let_resume(frame, result, stack, st) ==
    IF ~result.ok THEN Return(Err(result.val, st), stack)
    ELSE Return(Ok(<<frame.obj, result.val>>, st), stack)

\* args.iter().map(|obj| EVAL(obj, env)).collect(): the iterator is at form i
apply_do_next(args, env, i, mapped, stack, st) ==
    IF i > Len(args) THEN Return(Ok(mapped[Len(mapped)], st), stack)
    ELSE Call("EVAL", <<args[i], env>>,
              Push(stack, [fn |-> "apply_do", args |-> args, env |-> env, i |-> i,
                           mapped |-> mapped]), st)

apply_do_call(args, env, stack, st) ==
    IF args = <<>> THEN Return(Err(<<"Do", <<"NothingToDo">>>>, st), stack)
    ELSE apply_do_next(args, env, 1, <<>>, stack, st)

apply_do_resume(frame, result, stack, st) ==
    IF ~result.ok THEN Return(Err(result.val, st), stack)
    ELSE apply_do_next(frame.args, frame.env, frame.i + 1, Append(frame.mapped, result.val),
                       stack, st)

apply_if_call(args, env, stack, st) ==
    LET check == validate_for(Between(2, 3), Len(args), Text["if"])
    IN IF check # None THEN Return(Err(check[1], st), stack)
       ELSE Call("EVAL", <<args[1], env>>,
                 Push(stack, [fn |-> "apply_if", at |-> "condition", args |-> args,
                              env |-> env]), st)

apply_if_resume(frame, result, stack, st) ==
    LET branch(obj) == Call("EVAL", <<obj, frame.env>>,
                            Push(stack, [fn |-> "apply_if", at |-> "branch"]), st)
    IN IF frame.at = "branch"
       THEN Return([ok |-> result.ok, val |-> result.val, st |-> st], stack)
       ELSE IF ~result.ok THEN Return(Err(result.val, st), stack)
       ELSE IF truthy(result.val) THEN branch(frame.args[2])
       ELSE IF Len(frame.args) = 3 THEN branch(frame.args[3])
       ELSE Return(Ok(Nil, st), stack)

apply_try_call(args, env, stack, st) ==
    LET catch == catch_data(args)
    IN IF catch # None /\ ~catch[1].ok THEN Return(Err(catch[1].val, st), stack)
       ELSE Call("EVAL", <<args[1], env>>,
                 Push(stack, [fn |-> "apply_try", at |-> "ast", env |-> env,
                              catch_data |-> catch]), st)

\* match (EVAL(ast, env), catch_data), and the match on EVAL of the handler
apply_try_resume(frame, result, stack, st) ==
    CASE result.ok -> Return(Ok(<<result.val, frame.env>>, st), stack)
      [] ~result.ok /\ frame.at = "ast" ->
            IF frame.catch_data = None \/ beyond_model(result.val)
            THEN Return(Err(result.val, st), stack)
            ELSE LET exception_name == frame.catch_data[1].val[1]
                     exception_handler == frame.catch_data[1].val[2]
                     st1 == spawn_from(st, frame.env)
                     exception_env == spawned(st1)
                 IN Call("EVAL", <<exception_handler, exception_env>>,
                         Push(stack, [fn |-> "apply_try", at |-> "handler",
                                      env |-> frame.env, original |-> result.val]),
                         env_set(st1, exception_env, exception_name,
                                 error_into_object(result.val, st1)))
      [] ~result.ok /\ frame.at = "handler" ->
            IF beyond_model(result.val) THEN Return(Err(result.val, st), stack)
            ELSE Return(Err(<<"InCatchHandler", frame.original, result.val>>, st), stack)

\* the machine enters the function ctl names
Enter(fn, a, stack, st) ==
    CASE fn = "EVAL" -> EVAL_call(a[1], a[2], stack, st)
      [] fn = "macroexpand" -> macroexpand_call(a[1], a[2], stack, st)
      [] fn = "apply_fully" -> apply_fully_call(a[1], a[2], stack, st)
      [] fn = "apply" -> apply_call(a[1], a[2], stack, st)
      [] fn = "call_primitive" -> call_primitive_call(a[1], a[2], stack, st)
      [] fn = "swap_" -> swap__call(a[1], stack, st)
      [] fn = "apply_" -> apply__call(a[1], stack, st)
      [] fn = "map_" -> map__call(a[1], stack, st)
      [] fn = "evaluate_ast" -> evaluate_ast_call(a[1], a[2], stack, st)
      [] fn = "evaluate_map" -> evaluate_map_call(a[1], a[2], stack, st)
      [] fn = "evaluate_sequence_elementwise" ->
            evaluate_sequence_elementwise_call(a[1], a[2], stack, st)
      [] fn = "apply_def" -> apply_def_call(a[1], a[2], a[3], stack, st)
      [] fn = "apply_let" -> apply_let_call(a[1], a[2], stack, st)
      [] fn = "make_let_environment" -> make_let_environment_call(a[1], a[2], stack, st)
      [] fn = "apply_do" -> apply_do_call(a[1], a[2], stack, st)
      [] fn = "apply_if" -> apply_if_call(a[1], a[2], stack, st)
      [] fn = "apply_try" -> apply_try_call(a[1], a[2], stack, st)

\* the frame on top of the stack takes the result of its callee
Resume(frame, result, stack, st) ==
    CASE frame.fn = "EVAL" -> EVAL_resume(frame, result, stack, st)
      [] frame.fn = "macroexpand" -> macroexpand_resume(frame, result, stack, st)
      [] frame.fn = "apply_fully" -> apply_fully_resume(frame, result, stack, st)
      [] frame.fn = "apply" -> apply_resume(frame, result, stack, st)
      [] frame.fn = "call_primitive" -> call_primitive_resume(frame, result, stack, st)
      [] frame.fn = "swap_" -> swap__resume(frame, result, stack, st)
      [] frame.fn = "apply_" -> apply__resume(frame, result, stack, st)
      [] frame.fn = "map_" -> map__resume(frame, result, stack, st)
      [] frame.fn = "evaluate_ast" -> evaluate_ast_resume(frame, result, stack, st)
      [] frame.fn = "evaluate_map" -> evaluate_map_resume(frame, result, stack, st)
      [] frame.fn = "evaluate_sequence_elementwise" ->
            evaluate_sequence_elementwise_resume(frame, result, stack, st)
      [] frame.fn = "apply_def" -> apply_def_resume(frame, result, stack, st)
      [] frame.fn = "apply_let" -> apply_let_resume(frame, result, stack, st)
      [] frame.fn = "make_let_environment" ->
            make_let_environment_resume(frame, result, stack, st)
      [] frame.fn = "apply_do" -> apply_do_resume(frame, result, stack, st)
      [] frame.fn = "apply_if" -> apply_if_resume(frame, result, stack, st)
      [] frame.fn = "apply_try" -> apply_try_resume(frame, result, stack, st)

\* the outermost call has returned
Halted(m) == m.ctl[1] = "return" /\ m.stack = <<>>

Step(m) ==
    IF m.ctl[1] = "call" THEN Enter(m.ctl[2], m.ctl[3], m.stack, m.st)
    ELSE Resume(m.stack[Len(m.stack)], m.ctl[2], SubSeq(m.stack, 1, Len(m.stack) - 1), m.st)

\* at most n steps of the machine
RECURSIVE Run(_, _)
Run(m, n) ==
    IF Halted(m) \/ n = 0 THEN m
    ELSE IF n = 1 THEN Step(m)
    ELSE LET half == Run(m, n \div 2)
         IN IF Halted(half) THEN half ELSE Run(half, n - (n \div 2))

\* the call fn(args) on an empty host stack, to its return: [ok, val, st]
returned(m) ==
    IF Halted(m) THEN [ok |-> m.ctl[2].ok, val |-> m.ctl[2].val, st |-> m.st]
    ELSE Err(OutOfFuel, m.st)

Host(fn, args, st) == returned(Run(Call(fn, args, <<>>, st), MaxFuel))

EVAL(ast, env, st) == Host("EVAL", <<ast, env>>, st)

macroexpand(ast, env, st) == Host("macroexpand", <<ast, env>>, st)

apply_fully(callable_, args, st) == Host("apply_fully", <<callable_, args>>, st)

(***************************************************************************)
(* prelude.rs, interpreter.rs, environment.rs: the interpreter a REPL      *)
(* starts with.                                                            *)
(***************************************************************************)
\* the lines of PRELUDE, trimmed, the empty ones left out
PRELUDE ==
    <<
      <<"(", "d", "e", "f", "!", " ", "n", "o", "t", " ", "(", "f", "n", "*", " ", "(", "a", ")",
        " ", "(", "i", "f", " ", "a", " ", "f", "a", "l", "s", "e", " ", "t", "r", "u", "e", ")",
        ")", ")">>,
      <<"(", "d", "e", "f", "!", " ", "l", "o", "a", "d", "-", "f", "i", "l", "e", " ", "(", "f",
        "n", "*", " ", "(", "f", ")", " ", "(", "d", "o", " ", "(", "m", "a", "p", " ", "e", "v",
        "a", "l", " ", "(", "r", "e", "s", "t", " ", "(", "r", "e", "a", "d", "-", "s", "t", "r",
        "i", "n", "g", " ", "(", "s", "t", "r", " ", "\"", "(", "d", "o", " ", "\"", " ", "(",
        "s", "l", "u", "r", "p", " ", "f", ")", " ", "\"", "\\", "n", "n", "i", "l", ")", "\"",
        ")", ")", ")", ")", " ", "n", "i", "l", ")", ")", ")">>,
      <<"(", "d", "e", "f", "m", "a", "c", "r", "o", "!", " ", "c", "o", "n", "d", " ", "(", "f",
        "n", "*", " ", "(", "&", " ", "x", "s", ")", " ", "(", "i", "f", " ", "(", ">", " ", "(",
        "c", "o", "u", "n", "t", " ", "x", "s", ")", " ", "0", ")", " ", "(", "l", "i", "s", "t",
        " ", "'", "i", "f", " ", "(", "f", "i", "r", "s", "t", " ", "x", "s", ")", " ", "(", "i",
        "f", " ", "(", ">", " ", "(", "c", "o", "u", "n", "t", " ", "x", "s", ")", " ", "1", ")",
        " ", "(", "n", "t", "h", " ", "x", "s", " ", "1", ")", " ", "(", "t", "h", "r", "o", "w",
        " ", "\"", "o", "d", "d", " ", "n", "u", "m", "b", "e", "r", " ", "o", "f", " ", "f",
        "o", "r", "m", "s", " ", "t", "o", " ", "c", "o", "n", "d", "\"", ")", ")", " ", "(",
        "c", "o", "n", "s", " ", "'", "c", "o", "n", "d", " ", "(", "r", "e", "s", "t", " ", "(",
        "r", "e", "s", "t", " ", "x", "s", ")", ")", ")", ")", ")", ")", ")">>
    >>

READ(line) == read_str(line)

\* interpreter::EVAL: a new host stack for each form; the root frame is the env
interpreter_EVAL(ast, st) ==
    EVAL(ast, RootEnv, [st EXCEPT !.depth = 0, !.maxDepth = 0])

\* printer::print: Ok(Outcome) or Err(message); the model keeps the Error for
\* the message that format! makes of it
PRINT(result) ==
    IF result.ok THEN [ok |-> TRUE, val |-> Some(pr_str(result.val, Readable, result.st))]
    ELSE IF result.val = <<"Read", <<"ReadComment">>>> THEN [ok |-> TRUE, val |-> None]
    ELSE [ok |-> FALSE, val |-> result.val]

\* rep: the printed result and the heap the evaluation leaves
\* the ? of rep: an Err of READ is the result
eval_read(read, st) ==
    IF read.ok THEN interpreter_EVAL(read.val, st) ELSE Err(<<"Read", read.val>>, st)

print_result(result) == [out |-> PRINT(result), st |-> result.st]

rep(line, st) == print_result(eval_read(READ(line), st))

\* Environment::default
default(seed) ==
    LET names == {Text[name] : name \in CORE} \cup {Text["*host-language*"]}
        data == [key \in names |->
                    IF key = Text["*host-language*"] THEN String(Text["rust-dmr"])
                    ELSE Primitive(CHOOSE name \in CORE : Text[name] = key)]
    IN [envs |-> <<[data |-> data, parent |-> 0]>>, atoms |-> <<>>,
        depth |-> 0, maxDepth |-> 0, seed |-> seed]

add_eval(st) == env_set(st, RootEnv, Text["eval"], Eval(RootEnv))

\* the collect of read_prelude ends at the first line whose rep is an Err
RECURSIVE read_lines(_, _), after_line(_, _)
after_line(lines, done) ==
    IF done.out.ok THEN read_lines(lines, done.st) ELSE done.st

read_lines(lines, st) ==
    IF lines = <<>> THEN st
    ELSE after_line(Tail(lines), rep(Head(lines), st))

read_prelude(st) == read_lines(PRELUDE, st)

\* the heap of a new interpreter whose HashMaps iterate by seed
Interpreter(seed) == read_prelude(add_eval(default(seed)))

(***************************************************************************)
(* The REPL as a state machine.  The heap of the interpreter is envs and   *)
(* atoms; ast is the form READ made of the last line, result what EVAL     *)
(* returned for it, before the heap EVAL started from, and maxDepth the    *)
(* largest number of EVAL frames that were on the host stack at once.      *)
(* borrows and calls are the state between the statements of one line:     *)
(* the borrow flag of each RefCell and the host calls in progress.  A line *)
(* of the REPL is one step, which starts and ends with neither.            *)
(***************************************************************************)
VARIABLES envs, atoms, seed, ast, result, before, maxDepth, nlines, borrows, calls

vars == <<envs, atoms, seed, ast, result, before, maxDepth, nlines, borrows, calls>>

\* no RefCell is borrowed
NoBorrows == <<>>

\* the heap as the operators of the evaluator take it
Heap(e, a, s) == [envs |-> e, atoms |-> a, depth |-> 0, maxDepth |-> 0, seed |-> s]

\* the forms READ makes of the lines the model feeds the REPL
Sym(name) == new_symbol(name)

Str(name) == String(Text[name])

Form(items) == List(items)

Quote(x) == Form(<<Sym("quote"), x>>)

Throw(x) == Form(<<Sym("throw"), x>>)

Catch(name, handler) == Form(<<Sym("catch*"), Sym(name), handler>>)

Try(a, catch) == Form(<<Sym("try*"), a, catch>>)

\* (+ 1 2)
OnePlusTwo == Form(<<Sym("+"), Integer(1), Integer(2)>>)

\* (def! y 1)
DefY == Form(<<Sym("def!"), Sym("y"), Integer(1)>>)

\* (if (= n 0) 0 (name (- n 1)))
Countdown(name) ==
    Form(<<Sym("if"), Form(<<Sym("="), Sym("n"), Integer(0)>>), Integer(0),
           Form(<<Sym(name), Form(<<Sym("-"), Sym("n"), Integer(1)>>)>>)>>)

\* (def! loop (fn* (n) (if (= n 0) 0 (loop (- n 1)))))
DefLoop ==
    Form(<<Sym("def!"), Sym("loop"),
           Form(<<Sym("fn*"), Form(<<Sym("n")>>), Countdown("loop")>>)>>)

\* (def! f (fn* (n) (do (if (= n 0) 0 (f (- n 1))))))
DefF ==
    Form(<<Sym("def!"), Sym("f"),
           Form(<<Sym("fn*"), Form(<<Sym("n")>>),
                  Form(<<Sym("do"), Countdown("f")>>)>>)>>)

\* (name n)
SelfCall(name, n) == Form(<<Sym(name), Integer(n)>>)

LoopForms ==
    {DefLoop, DefF} \cup {SelfCall(name, n) : name \in {"loop", "f"}, n \in 1..MaxIter}

DoForms ==
    { Form(<<Sym("do"), DefY, Form(<<Sym("+"), Sym("y"), Integer(1)>>)>>),
      Form(<<Sym("do"), Throw(Str("boom")), DefY>>),
      Form(<<Sym("do"), Quote(OnePlusTwo)>>) }

IfForms ==
    { Form(<<Sym("if"), Integer(0), Integer(7), DefY>>),
      Form(<<Sym("if"), Nil, DefY>>),
      Form(<<Sym("if"), Nil, DefY, OnePlusTwo>>),
      Form(<<Sym("if"), Bool(TRUE), Quote(OnePlusTwo)>>) }

\* (nth (list 1 2) 5)
BadNth ==
    Form(<<Sym("nth"), Form(<<Sym("list"), Integer(1), Integer(2)>>), Integer(5)>>)

\* (try* (throw "a") (catch* e (throw "b")))
ThrowInHandler == Try(Throw(Str("a")), Catch("e", Throw(Str("b"))))

TryForms ==
    { Form(<<Sym("try*"), Quote(OnePlusTwo)>>),
      Form(<<Sym("try*"), Throw(Str("boom"))>>),
      Try(DefY, Catch("e", Integer(0))),
      Try(Throw(Str("boom")), Catch("e", Form(<<Sym("def!"), Sym("y"), Sym("e")>>))) }

CatchForms ==
    { Try(Throw(Str("boom")), Catch("e", Sym("e"))),
      Try(Throw(Quote(Sym("boom"))), Catch("e", Sym("e"))),
      Try(Throw(Quote(OnePlusTwo)), Catch("e", Sym("e"))),
      Try(BadNth, Catch("e", Sym("e"))),
      ThrowInHandler,
      Try(ThrowInHandler, Catch("x", Sym("x"))) }

\* (defmacro! unless (fn* (c x) (list (quote if) c nil x)))
DefUnless ==
    Form(<<Sym("defmacro!"), Sym("unless"),
           Form(<<Sym("fn*"), Form(<<Sym("c"), Sym("x")>>),
                  Form(<<Sym("list"), Quote(Sym("if")), Sym("c"), Nil, Sym("x")>>)>>)>>)

\* (defmacro! m (fn* (x) (list (quote cond) (nil? (atom 0)) 1 true x)))
DefM ==
    Form(<<Sym("defmacro!"), Sym("m"),
           Form(<<Sym("fn*"), Form(<<Sym("x")>>),
                  Form(<<Sym("list"), Quote(Sym("cond")),
                         Form(<<Sym("nil?"), Form(<<Sym("atom"), Integer(0)>>)>>),
                         Integer(1), Bool(TRUE), Sym("x")>>)>>)>>)

MacroForms ==
    { DefUnless, DefM,
      Form(<<Sym("unless"), Bool(FALSE), DefY>>),
      Form(<<Sym("unless"), Bool(TRUE)>>),
      Form(<<Sym("unless"), Sym("y"), Integer(7)>>),
      Form(<<Sym("m"), Integer(7)>>),
      Form(<<Sym("m"), Sym("y")>>),
      Form(<<Sym("macroexpand"), Form(<<Sym("m"), Integer(7)>>)>>),
      Form(<<Sym("cond"), Bool(FALSE), Integer(1), Bool(TRUE), OnePlusTwo>>),
      Form(<<Sym("cond"), Bool(FALSE), Integer(1), Sym("y")>>) }

\* Interpreter::new, then the prelude
Init ==
    /\ seed \in {0, 1}
    /\ \E st \in {Interpreter(seed)} :
          /\ envs = st.envs
          /\ atoms = st.atoms
          /\ before = [envs |-> st.envs, atoms |-> st.atoms]
    /\ ast = Nil
    /\ result = [ok |-> TRUE, val |-> Nil]
    /\ maxDepth = 0
    /\ nlines = 0
    /\ borrows = NoBorrows
    /\ calls = <<>>

\* interpreter::EVAL of the form of one more line
EVAL_line(form) ==
    /\ nlines < MaxLines
    /\ \E r \in {interpreter_EVAL(form, Heap(envs, atoms, seed))} :
          /\ result' = [ok |-> r.ok, val |-> r.val]
          /\ envs' = r.st.envs
          /\ atoms' = r.st.atoms
          /\ maxDepth' = r.st.maxDepth
    /\ ast' = form
    /\ before' = [envs |-> envs, atoms |-> atoms]
    /\ nlines' = nlines + 1
    /\ UNCHANGED <<seed, borrows, calls>>

LoopLine == \E form \in LoopForms : EVAL_line(form)

DoLine == \E form \in DoForms : EVAL_line(form)

IfLine == \E form \in IfForms : EVAL_line(form)

TryLine == \E form \in TryForms : EVAL_line(form)

CatchLine == \E form \in CatchForms : EVAL_line(form)

MacroLine == \E form \in MacroForms : EVAL_line(form)

\* a REPL fed closures that call themselves, do forms and if forms
Next == LoopLine \/ DoLine \/ IfLine

Spec == Init /\ [][Next]_vars

\* a REPL fed try* forms
NextTry == TryLine \/ CatchLine

SpecTry == Init /\ [][NextTry]_vars

\* a REPL fed macro definitions and macro calls
NextMacro == MacroLine

SpecMacro == Init /\ [][NextMacro]_vars

(***************************************************************************)
(* Claims about the evaluator.                                             *)
(***************************************************************************)
\* the heap the last line was evaluated from
Before == Heap(before.envs, before.atoms, seed)

Value(v) == [ok |-> TRUE, val |-> v]

Raised(e) == [ok |-> FALSE, val |-> e]

\* the largest number of EVAL frames on the host stack while form is evaluated
EvalDepth(form, st) == interpreter_EVAL(form, st).st.maxDepth

\* C1: a closure that calls itself in tail position of if or do runs n
\* iterations with no more nested activations of EVAL than it needs for one
\* iteration, whatever n is.
C1_TailCallDepthBounded ==
    \A name \in {"loop", "f"}, n \in 1..MaxIter :
        (ast = SelfCall(name, n) /\ result = Value(Integer(0)))
            => maxDepth <= EvalDepth(SelfCall(name, 1), Before)

\* the last line was the special form name with at least one operand
IsSpecialForm(name) ==
    Tag(ast) = "List" /\ Len(Payload(ast)) >= 2 /\ Payload(ast)[1] = Sym(name)

Operands == Tail(Payload(ast))

\* what the last line made of the heap st it started from
Matches(expected) ==
    /\ result = [ok |-> expected.ok, val |-> expected.val]
    /\ envs = expected.st.envs
    /\ atoms = expected.st.atoms

\* each of forms evaluated once, in order, in env; the value of the last one,
\* or the first error
RECURSIVE EvaluateInOrder(_, _, _)
EvaluateInOrder(forms, env, st) ==
    LET first == EVAL(Head(forms), env, st)
    IN IF ~first.ok \/ Len(forms) = 1 THEN first
       ELSE EvaluateInOrder(Tail(forms), env, first.st)

\* C2: (do f1 ... fn) evaluates f1 .. fn once each, in order, in the env of
\* the do form, and its result is the value of fn, not evaluated again.
C2_DoEvaluatesEachFormOnce ==
    IsSpecialForm("do") => Matches(EvaluateInOrder(Operands, RootEnv, Before))

\* the condition evaluated once, then the chosen branch evaluated once: the
\* value of the branch as it is, or Nil without an else branch
IfOnce(args, env, st) ==
    LET condition == EVAL(args[1], env, st)
    IN IF ~condition.ok THEN condition
       ELSE IF truthy(condition.val) THEN EVAL(args[2], env, condition.st)
       ELSE IF Len(args) = 3 THEN EVAL(args[3], env, condition.st)
       ELSE Ok(Nil, condition.st)

\* C3: (if c t) and (if c t e) evaluate c once, then only the chosen branch,
\* once; the result is the value of that branch as it is, or Nil when c is
\* falsy and e is absent.
C3_IfEvaluatesChosenBranchOnce ==
    (IsSpecialForm("if") /\ Len(Operands) \in {2, 3})
        => Matches(IfOnce(Operands, RootEnv, Before))

\* A evaluated once; its value as it is, or, when A raises and there is a
\* catch clause, the handler evaluated once in a child of env that binds the
\* catch symbol to the exception value
TryOnce(args, env, st) ==
    LET a == EVAL(args[1], env, st)
    IN IF a.ok \/ Len(args) = 1 THEN a
       ELSE LET exception_name == Payload(Payload(args[2])[2])
                exception_handler == Payload(args[2])[3]
                exception_value == IF a.val[1] = "UserException" THEN a.val[2]
                                   ELSE String(DisplayError(a.val, a.st))
                st1 == spawn_from(a.st, env)
                h == EVAL(exception_handler, spawned(st1),
                          env_set(st1, spawned(st1), exception_name, exception_value))
            IN IF h.ok THEN h ELSE Err(<<"InCatchHandler", a.val, h.val>>, h.st)

\* C4: (try* A) and (try* A (catch* sym H)) give the value of A, evaluated
\* once and not evaluated again; when A raises, the value of H evaluated once
\* in a fresh child environment binding sym to the exception value; when A
\* raises and there is no catch clause, the error of A.
C4_TryEvaluatesOnce ==
    IsSpecialForm("try*") => Matches(TryOnce(Operands, RootEnv, Before))

\* the last line was (try* A (catch* e e))
IsCatchItself ==
    IsSpecialForm("try*") /\ Len(Operands) = 2 /\ Operands[2] = Catch("e", Sym("e"))

\* "bad index: 5 not in range [0, 2)"
BadIndexMessage ==
    <<"b", "a", "d", " ", "i", "n", "d", "e", "x", ":", " ", "5", " ", "n", "o", "t", " ",
      "i", "n", " ", "r", "a", "n", "g", "e", " ", "[", "0", ",", " ", "2", ")">>

\* C5: (try* A (catch* e e)) gives the thrown value itself when A raised by
\* throw, and the String of the error message when A raised a host error:
\* "bad index: 5 not in range [0, 2)" for (nth (list 1 2) 5).
C5_CatchBindsThrownValue ==
    /\ IsCatchItself =>
          LET a == EVAL(Operands[1], RootEnv, Before)
          IN ~a.ok => result = Value(IF a.val[1] = "UserException" THEN a.val[2]
                                     ELSE String(DisplayError(a.val, a.st)))
    /\ ast = Try(BadNth, Catch("e", Sym("e"))) => result = Value(String(BadIndexMessage))

\* C6: when the handler of a try* raises, the try* raises InCatchHandler with
\* the original error and the error of the handler, and an enclosing try*
\* with a catch clause raises that same error without running its handler.
C6_ErrorInCatchHandlerNotCatchable ==
    /\ ast = ThrowInHandler
          => result = Raised(<<"InCatchHandler", <<"UserException", Str("a")>>,
                                                 <<"UserException", Str("b")>>>>)
    /\ (IsSpecialForm("try*") /\ Len(Operands) = 2) =>
          LET a == EVAL(Operands[1], RootEnv, Before)
          IN (~a.ok /\ a.val[1] = "InCatchHandler") => result = Raised(a.val)

\* the head of the last line was a symbol bound to a macro when it was read
WasMacroCall == is_macro_call(ast, RootEnv, Before) # None

\* the full expansion of the last line, as the macroexpand special form
\* returns it: (macroexpand ast) evaluated from the heap before the line
Expansion == interpreter_EVAL(Form(<<Sym("macroexpand"), ast>>), Before)

\* C7: a form whose head is bound to a macro evaluates to what its full
\* macro expansion evaluates to, value or error, with the same environments
\* and atoms afterwards.
C7_MacroOrder ==
    WasMacroCall =>
        Matches(IF Expansion.ok THEN interpreter_EVAL(Expansion.val, Expansion.st)
                ELSE Expansion)

\* (unless false (def! y 1)) was expanded to (if false nil (def! y 1)), which
\* gave 1 and bound y in the root environment
C7_MacroCallEvaluated ==
    /\ ast = Form(<<Sym("unless"), Bool(FALSE), DefY>>)
    /\ WasMacroCall
    /\ Expansion.ok
    /\ Expansion.val = Form(<<Sym("if"), Bool(FALSE), Nil, DefY>>)
    /\ result = Value(Integer(1))
    /\ Text["y"] \notin DOMAIN before.envs[RootEnv].data
    /\ Text["y"] \in DOMAIN envs[RootEnv].data

(***************************************************************************)
(* The quasiquote rewrite on bounded forms.  The REPL has read the line    *)
(* (def! xs (list 2 3)); ast is the operand x of the next quasiquote form. *)
(***************************************************************************)
\* (def! xs (list 2 3))
DefXs ==
    Form(<<Sym("def!"), Sym("xs"), Form(<<Sym("list"), Integer(2), Integer(3)>>)>>)

\* (1 (splice-unquote xs) 4)
SpliceExample ==
    Form(<<Integer(1), Form(<<Sym("splice-unquote"), Sym("xs")>>), Integer(4)>>)

SeqsUpTo(S, n) == UNION {[1..k -> S] : k \in 0..n}

QQAtoms == {Integer(1), Sym("xs"), Sym("unquote"), Sym("splice-unquote")}

\* (), and unquote and splice-unquote with no, one and two operands, as
\* lists and as vectors
QQOperators ==
    {new_list} \cup
    { <<kind, <<Sym(op)>> \o operands>> :
        kind \in {"List", "Vector"}, op \in {"unquote", "splice-unquote"},
        operands \in {<<>>, <<Sym("xs")>>, <<Sym("xs"), Integer(1)>>} }

QQInputs ==
    QQAtoms \cup {SpliceExample} \cup
    { <<kind, items>> :
        kind \in {"List", "Vector"}, items \in SeqsUpTo(QQAtoms \cup QQOperators, MaxLen) }

\* the rewrite and the primitives it calls iterate no HashMap: one seed
InitQQ ==
    /\ seed = 0
    /\ \E st \in {interpreter_EVAL(DefXs, Interpreter(seed)).st} :
          /\ envs = st.envs
          /\ atoms = st.atoms
          /\ before = [envs |-> st.envs, atoms |-> st.atoms]
    /\ ast \in QQInputs
    /\ result = [ok |-> TRUE, val |-> Nil]
    /\ maxDepth = 0
    /\ nlines = 0
    /\ borrows = NoBorrows
    /\ calls = <<>>

\* special_forms::apply_quasiquote(x)
Rewrite ==
    /\ nlines = 0
    /\ ast \in QQInputs
    /\ result' = apply_quasiquote(ast)
    /\ nlines' = 1
    /\ UNCHANGED <<envs, atoms, seed, ast, before, maxDepth, borrows, calls>>

\* the line (quasiquote x)
QuasiquoteLine ==
    /\ ast \in QQInputs
    /\ EVAL_line(Form(<<Sym("quasiquote"), ast>>))

NextQQ == Rewrite \/ QuasiquoteLine

SpecQQ == InitQQ /\ [][NextQQ]_vars

RewriteTo(form) == [ok |-> TRUE, val |-> form]

ArityError == [ok |-> FALSE, val |-> <<"BadArgCount">>]

\* x is (splice-unquote s ...), a list or a vector, with s present
IsSpliceUnquote(x) ==
    is_seq(x) /\ Len(Payload(x)) >= 2 /\ Payload(x)[1] = Sym("splice-unquote")

\* x is (splice-unquote), a list or a vector, with no operand
IsBareSpliceUnquote(x) == is_seq(x) /\ Payload(x) = <<Sym("splice-unquote")>>

\* the rewrite qq of the specification; with bare_is_error, a first element
\* (splice-unquote) with no operand is an arity error
RECURSIVE qq(_, _)
qq(x, bare_is_error) ==
    IF ~is_seq(x) THEN RewriteTo(Quote(x))
    ELSE LET items == Payload(x)
         IN IF items = <<>> THEN RewriteTo(new_list)
            ELSE IF items[1] = Sym("unquote")
            THEN IF Len(items) = 2 THEN RewriteTo(items[2]) ELSE ArityError
            ELSE IF bare_is_error /\ IsBareSpliceUnquote(items[1]) THEN ArityError
            ELSE LET rest == qq(List(Tail(items)), bare_is_error)
                     head == qq(items[1], bare_is_error)
                 IN IF IsSpliceUnquote(items[1])
                    THEN IF ~rest.ok THEN rest
                         ELSE RewriteTo(Form(<<Sym("concat"), Payload(items[1])[2],
                                               rest.val>>))
                    ELSE IF ~head.ok THEN head
                    ELSE IF ~rest.ok THEN rest
                    ELSE RewriteTo(Form(<<Sym("cons"), head.val, rest.val>>))

\* the rewrite of the last state gave what expected says: the same form, or
\* an arity error where expected has one
RewriteGave(expected) ==
    /\ result.ok = expected.ok
    /\ result.ok => result.val = expected.val
    /\ ~result.ok => result.val[1] = "BadArgCount"

\* the state follows Rewrite: ast is still the operand x
Rewritten == nlines >= 1 /\ ast \in QQInputs

\* (quasiquote (1 (splice-unquote xs) 4)) gave (1 2 3 4)
SpliceExampleGave1234 ==
    ast = Form(<<Sym("quasiquote"), SpliceExample>>)
        => result = Value(Form(<<Integer(1), Integer(2), Integer(3), Integer(4)>>))

\* the line (quasiquote x) gave what the rewrite expected evaluates to
QuasiquoteLineGave(expected) ==
    IF expected.ok THEN Matches(interpreter_EVAL(expected.val, Before))
    ELSE ~result.ok /\ result.val[1] = "BadArgCount"

\* C8 (as stated): the quasiquote rewrite of x is (quote x) when x is no list
\* or vector, () when x is empty, y when x is (unquote y) and an arity error
\* when unquote has not exactly one operand, (concat s qq(rest)) when the
\* first element of x is (splice-unquote s), and (cons qq(head) qq(rest))
\* otherwise; with xs bound to (2 3), (quasiquote (1 (splice-unquote xs) 4))
\* evaluates to (1 2 3 4).
C8_QuasiquoteAsSpecified ==
    /\ Rewritten => RewriteGave(qq(ast, FALSE))
    /\ (IsSpecialForm("quasiquote") /\ Len(Operands) = 1)
          => QuasiquoteLineGave(qq(Operands[1], FALSE))
    /\ SpliceExampleGave1234

\* C8 (amended): as stated, except that the rewrite is an arity error when
\* the first element of x is (splice-unquote) with no operand.
C8_QuasiquoteRewrite ==
    /\ Rewritten => RewriteGave(qq(ast, TRUE))
    /\ (IsSpecialForm("quasiquote") /\ Len(Operands) = 1)
          => QuasiquoteLineGave(qq(Operands[1], TRUE))
    /\ SpliceExampleGave1234

\* (1 (splice-unquote xs) 4) was rewritten to
\* (cons (quote 1) (concat xs (cons (quote 4) ())))
C8_SpliceRewritten ==
    /\ Rewritten
    /\ ast = SpliceExample
    /\ result = RewriteTo(Form(<<Sym("cons"), Quote(Integer(1)),
                    Form(<<Sym("concat"), Sym("xs"),
                           Form(<<Sym("cons"), Quote(Integer(4)), new_list>>)>>)>>))

(***************************************************************************)
(* Printing a value and reading the text back.  ast is the value v, result *)
(* the text printer::pr_str makes of it and then what reader::read_str     *)
(* makes of that text; nlines counts the two steps.                        *)
(***************************************************************************)
RTChars == {"a", "\"", "\\", "\n", "\t"}

RTStrings == {String(s) : s \in SeqsUpTo(RTChars, MaxStr)}

RTLeaves ==
    {Nil, Bool(TRUE), Bool(FALSE), Integer(0), Integer(-1), Keyword(Text["a"]), Sym("a")}
        \cup RTStrings

RTKeys == {Keyword(Text["a"]), String(Text["a"])}

MapsTo(values) == {Map(m) : m \in UNION {[keys -> values] : keys \in SUBSET RTKeys}}

\* lists and vectors of at most two leaves, or of one map
RTSeqs ==
    { <<kind, items>> :
        kind \in {"List", "Vector"},
        items \in {<<>>} \cup {<<x>> : x \in RTLeaves \cup MapsTo(RTLeaves)}
                         \cup {<<x, y>> : x \in RTStrings, y \in RTLeaves} }

RTValues ==
    RTLeaves \cup RTSeqs \cup MapsTo(RTLeaves)
        \cup MapsTo({<<kind, <<x>>>> : kind \in {"List", "Vector"}, x \in RTStrings})

InitRT ==
    /\ seed \in {0, 1}
    /\ \E st \in {Interpreter(seed)} :
          /\ envs = st.envs
          /\ atoms = st.atoms
          /\ before = [envs |-> st.envs, atoms |-> st.atoms]
    /\ ast \in RTValues
    /\ result = [ok |-> TRUE, val |-> Nil]
    /\ maxDepth = 0
    /\ nlines = 0
    /\ borrows = NoBorrows
    /\ calls = <<>>

\* printer::pr_str(v, PrintMode::ReadableRepresentation)
PrintReadably ==
    /\ nlines = 0
    /\ result' = [ok |-> TRUE, val |-> String(pr_str(ast, Readable, Heap(envs, atoms, seed)))]
    /\ nlines' = 1
    /\ UNCHANGED <<envs, atoms, seed, ast, before, maxDepth, borrows, calls>>

\* reader::read_str of the printed text
ReadBack ==
    /\ nlines = 1
    /\ result' = read_str(Payload(result.val))
    /\ nlines' = 2
    /\ UNCHANGED <<envs, atoms, seed, ast, before, maxDepth, borrows, calls>>

NextRT == PrintReadably \/ ReadBack

SpecRT == InitRT /\ [][NextRT]_vars

\* C9: for every value v the reader can produce that has no callable in it,
\* reading the text that printing v readably gives succeeds, and the value
\* read is structurally equal to v.
C9_ReadOfPrintedIsEqual == nlines = 2 => (result.ok /\ eq(result.val, ast))

(***************************************************************************)
(* The primitive = on bounded values.  ast is the line (= (quote a)        *)
(* (quote b)) the REPL has read.                                           *)
(***************************************************************************)
EqLeaves ==
    {Nil, Bool(FALSE), Bool(TRUE), Integer(0), Integer(1), String(<<>>), String(Text["a"]),
     Keyword(Text["a"]), Sym("a")}

EqSeqs ==
    {<<kind, items>> : kind \in {"List", "Vector"},
                       items \in SeqsUpTo({Integer(0), Integer(1)}, MaxLen)}

\* a list or a vector of one list or vector of at most one integer
EqNested ==
    {<<kind, <<<<inner, items>>>>>> :
        kind \in {"List", "Vector"}, inner \in {"List", "Vector"},
        items \in {<<>>, <<Integer(0)>>, <<Integer(1)>>}}

EqMaps == MapsTo({Integer(0), Integer(1), List(<<Integer(0)>>), Vector(<<Integer(0)>>)})

EqValues == EqLeaves \cup EqSeqs \cup EqNested \cup EqMaps

EqualForm(a, b) == Form(<<Sym("="), Quote(a), Quote(b)>>)

InitEq ==
    /\ seed \in {0, 1}
    /\ \E st \in {Interpreter(seed)} :
          /\ envs = st.envs
          /\ atoms = st.atoms
          /\ before = [envs |-> st.envs, atoms |-> st.atoms]
    /\ \E a \in EqValues, b \in EqValues : ast = EqualForm(a, b)
    /\ result = [ok |-> TRUE, val |-> Nil]
    /\ maxDepth = 0
    /\ nlines = 0
    /\ borrows = NoBorrows
    /\ calls = <<>>

\* the line (= (quote a) (quote b))
EqualLine ==
    /\ nlines = 0
    /\ EVAL_line(ast)

NextEq == EqualLine

SpecEq == InitEq /\ [][NextEq]_vars

\* the operands a and b of the line
Left == Payload(Payload(ast)[2])[2]

Right == Payload(Payload(ast)[3])[2]

ScalarKinds == {"Nil", "Bool", "Integer", "String", "Keyword", "Symbol"}

\* recursive structural equality, a List taken equal to a Vector of the same
\* elements
RECURSIVE Structural(_, _)
Structural(a, b) ==
    IF is_seq(a) /\ is_seq(b)
    THEN /\ Len(Payload(a)) = Len(Payload(b))
         /\ \A i \in 1..Len(Payload(a)) : Structural(Payload(a)[i], Payload(b)[i])
    ELSE IF Tag(a) = "Map" /\ Tag(b) = "Map"
    THEN /\ DOMAIN Payload(a) = DOMAIN Payload(b)
         /\ \A key \in DOMAIN Payload(a) : Structural(Payload(a)[key], Payload(b)[key])
    ELSE Tag(a) = Tag(b) /\ Tag(a) \in ScalarKinds /\ a = b

\* C10: (= a b) is recursive structural equality: a List and a Vector are
\* equal exactly when they have the same length and pairwise equal elements,
\* two Maps exactly when they have the same keys and equal values at every
\* key, and values of different kinds that are not both sequences never.
C10_EqualIsStructural ==
    nlines = 1 => result = Value(Bool(Structural(Left, Right)))

\* (= (quote (0 1)) (quote [0 1])) gave true
C10_ListEqualsVector ==
    /\ nlines = 1
    /\ ast = EqualForm(List(<<Integer(0), Integer(1)>>), Vector(<<Integer(0), Integer(1)>>))
    /\ result = Value(Bool(TRUE))

(***************************************************************************)
(* Atoms.  The REPL has read (def! a (atom 0)), (def! b (atom 0)),         *)
(* (def! c a) and (def! h (fn* () (deref a))): a and c are one cell, b is  *)
(* another cell with an equal value.                                       *)
(***************************************************************************)
\* (def! name (atom 0))
DefAtom(name) == Form(<<Sym("def!"), Sym(name), Form(<<Sym("atom"), Integer(0)>>)>>)

\* (def! c a)
DefAlias == Form(<<Sym("def!"), Sym("c"), Sym("a")>>)

\* (deref name)
Deref(name) == Form(<<Sym("deref"), Sym(name)>>)

\* (def! h (fn* () (deref a)))
DefH == Form(<<Sym("def!"), Sym("h"), Form(<<Sym("fn*"), Form(<<>>), Deref("a")>>)>>)

\* the heap after the REPL has evaluated forms in order, each line to its end
\* before the next
RECURSIVE AfterLines(_, _)
AfterLines(forms, st) ==
    IF forms = <<>> \/ st.envs = <<>> THEN st
    ELSE AfterLines(Tail(forms), interpreter_EVAL(Head(forms), st).st)

AtomNames == {"a", "b", "c"}

\* (= x y)
EqualAtoms(x, y) == Form(<<Sym("="), Sym(x), Sym(y)>>)

\* (= (atom 0) (atom 0))
EqualNewAtoms ==
    Form(<<Sym("="), Form(<<Sym("atom"), Integer(0)>>), Form(<<Sym("atom"), Integer(0)>>)>>)

EqualAtomForms == {EqualAtoms(x, y) : x \in AtomNames, y \in AtomNames} \cup {EqualNewAtoms}

\* (reset! name v)
Reset(name, v) == Form(<<Sym("reset!"), Sym(name), Integer(v)>>)

\* (swap! name f x ...)
Swap(name, f, extra) == Form(<<Sym("swap!"), Sym(name), f>> \o extra)

\* (fn* (x) (throw "boom"))
Thrower == Form(<<Sym("fn*"), Form(<<Sym("x")>>), Throw(Str("boom"))>>)

\* the callables and extra arguments the model gives swap!
SwapCalls ==
    { <<Sym("+"), <<Integer(1), Integer(2)>>>>,
      <<Sym("+"), <<>>>>,
      <<Sym("list"), <<Integer(1)>>>>,
      <<Thrower, <<>>>> }

StoreForms ==
    {Reset(name, v) : name \in AtomNames, v \in 1..2}
        \cup {Swap(name, call[1], call[2]) : name \in {"a", "c"}, call \in SwapCalls}

DerefForms == {Deref(name) : name \in AtomNames}

\* (fn* (v) (list v (deref name)))
ReadsAtom(name) ==
    Form(<<Sym("fn*"), Form(<<Sym("x")>>),
           Form(<<Sym("list"), Sym("x"), Deref(name)>>)>>)

\* (fn* (v) (list v (h)))
CallsH ==
    Form(<<Sym("fn*"), Form(<<Sym("x")>>),
           Form(<<Sym("list"), Sym("x"), Form(<<Sym("h")>>)>>)>>)

ReenterForms ==
    {Swap(name, f, <<>>) : name \in {"a", "c"}, f \in {ReadsAtom("a"), ReadsAtom("c"), CallsH}}

InitAtom ==
    /\ seed \in {0, 1}
    /\ \E st \in {AfterLines(<<DefAtom("a"), DefAtom("b"), DefAlias, DefH>>, Interpreter(seed))} :
          /\ envs = st.envs
          /\ atoms = st.atoms
          /\ before = [envs |-> st.envs, atoms |-> st.atoms]
    /\ ast = Nil
    /\ result = [ok |-> TRUE, val |-> Nil]
    /\ maxDepth = 0
    /\ nlines = 0
    /\ borrows = NoBorrows
    /\ calls = <<>>

EqualAtomLine == \E form \in EqualAtomForms : EVAL_line(form)

StoreLine == \E form \in StoreForms : EVAL_line(form)

DerefLine == \E form \in DerefForms : EVAL_line(form)

ReenterLine == \E form \in ReenterForms : EVAL_line(form)

NextAtom == EqualAtomLine \/ StoreLine \/ DerefLine \/ ReenterLine

SpecAtom == InitAtom /\ [][NextAtom]_vars

\* the cell that name is bound to in the root environment
Cell(name) == Payload(envs[RootEnv].data[Text[name]])

\* C11: (= x y) of two atoms is true exactly when x and y are the same cell:
\* true for (= a a) and for an alias, false for two atoms made by separate
\* atom calls that hold equal values.
C11_AtomEqualityByIdentity ==
    /\ \A x \in AtomNames, y \in AtomNames :
            ast = EqualAtoms(x, y) => result = Value(Bool(Cell(x) = Cell(y)))
    /\ ast = EqualNewAtoms => result = Value(Bool(FALSE))

(***************************************************************************)
(* Truthiness: if forms over conditions of every kind of value.            *)
(***************************************************************************)
\* (atom v)
NewAtom(v) == Form(<<Sym("atom"), v>>)

\* (fn* () 1)
ConstantOne == Form(<<Sym("fn*"), Form(<<>>), Integer(1)>>)

\* forms whose values are of every variant of MalObject
Conditions ==
    { Nil, Bool(FALSE), Bool(TRUE),
      Form(<<Sym("="), Integer(1), Integer(2)>>),
      Form(<<Sym("first"), Form(<<>>)>>),
      Integer(0), Integer(1),
      String(<<>>), Str("a"),
      Form(<<>>), Form(<<Sym("list"), Integer(0)>>),
      Vector(<<>>), Map(<<>>),
      Keyword(Text["a"]), Quote(Sym("x")),
      Sym("+"), Sym("eval"), Sym("not"), Sym("cond"), ConstantOne,
      NewAtom(Integer(0)), NewAtom(Nil), NewAtom(Bool(FALSE)) }

\* (if c 1 2)
IfElse(c) == Form(<<Sym("if"), c, Integer(1), Integer(2)>>)

\* (if c 1)
IfOnly(c) == Form(<<Sym("if"), c, Integer(1)>>)

IfElseLine == \E c \in Conditions : EVAL_line(IfElse(c))

IfOnlyLine == \E c \in Conditions : EVAL_line(IfOnly(c))

NextTruth == IfElseLine \/ IfOnlyLine

SpecTruth == Init /\ [][NextTruth]_vars

\* the value of the condition c of the last line
Condition(c) == interpreter_EVAL(c, Before)

Falsy(v) == v \in {Nil, Bool(FALSE)}

\* C12: if takes its else branch (or gives nil without one) exactly when the
\* condition's value is Nil or Bool false; the integer 0, the empty string,
\* empty collections, keywords, symbols, callables and atoms take the then
\* branch.
C12_OnlyNilAndFalseAreFalse ==
    \A c \in Conditions :
        /\ (ast = IfElse(c) /\ Condition(c).ok)
                => result = Value(Integer(IF Falsy(Condition(c).val) THEN 2 ELSE 1))
        /\ (ast = IfOnly(c) /\ Condition(c).ok)
                => result = Value(IF Falsy(Condition(c).val) THEN Nil ELSE Integer(1))

\* (if 0 1 2) gave 1
C12_ZeroIsTrue ==
    /\ ast = IfElse(Integer(0))
    /\ Condition(Integer(0)).val = Integer(0)
    /\ result = Value(Integer(1))

\* the names bound to the cell that name is bound to
Aliases(name) == {other \in AtomNames : Cell(other) = Cell(name)}

IsSwap(form) == Tag(form) = "List" /\ Payload(form) # <<>> /\ Payload(form)[1] = Sym("swap!")

IsReset(form) == Tag(form) = "List" /\ Payload(form) # <<>> /\ Payload(form)[1] = Sym("reset!")

\* the atom name that a reset! or swap! form of the model stores to
Target(form) == CHOOSE name \in AtomNames : Payload(form)[2] = Sym(name)

\* (f (deref a) x ...) for the form (swap! a f x ...)
Applied(form) ==
    Form(<<Payload(form)[3], Form(<<Sym("deref"), Payload(form)[2]>>)>>
            \o SliceFrom(Payload(form), 4))

\* the Ok or Err of an evaluator::Result, without the heap
OkOrErr(r) == [ok |-> r.ok, val |-> r.val]

\* what (deref name) gives on the heap with environments e and atoms a
DerefIn(name, e, a) ==
    OkOrErr(interpreter_EVAL(Deref(name), Heap(e, a, seed)))

\* a line that is a reset!: the value is stored and returned, and deref gives
\* it through every name of the cell
ResetStep ==
    IsReset(ast') =>
        /\ result' = Value(Payload(ast')[3])
        /\ \A other \in Aliases(Target(ast')) : DerefIn(other, envs', atoms') = result'

\* a line that is a swap!: it returns what (f (deref a) x ...) returned before
\* the line, and deref gives that through every name of the cell; the atom
\* keeps its value when f raises
SwapStep ==
    IsSwap(ast') =>
        /\ result' = OkOrErr(interpreter_EVAL(Applied(ast'), Heap(envs, atoms, seed)))
        /\ result'.ok =>
                \A other \in Aliases(Target(ast')) : DerefIn(other, envs', atoms') = result'
        /\ ~result'.ok => atoms' = atoms

\* a line that is a deref: it returns the value of the cell and stores nothing;
\* right after a successful reset! or swap! of the same cell, it returns what
\* that line returned
DerefStep ==
    \A name \in AtomNames :
        ast' = Deref(name) =>
            /\ result' = Value(atoms[Cell(name)])
            /\ atoms' = atoms
            /\ ((IsReset(ast) \/ IsSwap(ast)) /\ result.ok /\ name \in Aliases(Target(ast)))
                    => result' = result

\* C13: reset! and swap! return the value they store, swap! stores what its
\* callable returns for the atom's value followed by the extra arguments, and
\* deref returns the last value stored, through every reference to the atom.
C13_DerefReturnsLastStored == [][ResetStep /\ SwapStep /\ DerefStep]_vars

\* (swap! a + 1 2) then (deref c): 3, through the other name of the cell
C13_SwapThenDerefAlias ==
    /\ nlines = 2
    /\ ast = Deref("c")
    /\ before.atoms[Cell("a")] = Integer(3)
    /\ result = Value(Integer(3))

\* the last line was (swap! a f) with an f of the model that derefs the atom
\* it is swapping
IsReentrantSwap == ast \in ReenterForms

\* C14: a callable of swap! that derefs the atom being swapped, itself or
\* through a call of h, reads the value the atom held before the swap!; the
\* swap! succeeds and stores what the callable returned.
C14_ReentrantDerefSeesOldValue ==
    IsReentrantSwap =>
        /\ result = Value(List(<<before.atoms[Cell("a")], before.atoms[Cell("a")]>>))
        /\ atoms[Cell("a")] = result.val

\* (swap! c (fn* (x) (list x (h)))) on a = 0 gave (0 0)
C14_NestedDerefDuringSwap ==
    /\ ast = Swap("c", CallsH, <<>>)
    /\ before.atoms[Cell("a")] = Integer(0)
    /\ result = Value(List(<<Integer(0), Integer(0)>>))

(***************************************************************************)
(* Lexical scoping.  The REPL has read                                     *)
(*   (def! x 1)                                                            *)
(*   (def! g (fn* () x))                   x is free, the root is captured *)
(*   (def! k (fn* (x) (g)))                the caller's frame binds x      *)
(*   (def! w (fn* () z))                   z is bound later, or never      *)
(*   (def! p (let* (y 5) (fn* () y)))      a let* frame is captured        *)
(*   (def! h (let* (y 5) (fn* () x)))      x is bound in its parent        *)
(*   (def! mk (fn* (x) (fn* () x)))                                        *)
(*   (def! q (mk 4))                       a call frame is captured        *)
(***************************************************************************)
\* (def! name value)
Def(name, value) == Form(<<Sym("def!"), Sym(name), value>>)

\* (fn* (params) body)
Fn(params, body) == Form(<<Sym("fn*"), Form([i \in 1..Len(params) |-> Sym(params[i])]), body>>)

\* (let* (name value) body)
Let1(name, value, body) == Form(<<Sym("let*"), Form(<<Sym(name), value>>), body>>)

\* (name)
CallOf(name) == Form(<<Sym(name)>>)

ScopePrelude ==
    << Def("x", Integer(1)),
       Def("g", Fn(<<>>, Sym("x"))),
       Def("k", Fn(<<"x">>, CallOf("g"))),
       Def("w", Fn(<<>>, Sym("z"))),
       Def("p", Let1("y", Integer(5), Fn(<<>>, Sym("y")))),
       Def("h", Let1("y", Integer(5), Fn(<<>>, Sym("x")))),
       Def("mk", Fn(<<"x">>, Fn(<<>>, Sym("x")))),
       Def("q", Form(<<Sym("mk"), Integer(4)>>)) >>

InitScope ==
    /\ seed \in {0, 1}
    /\ \E st \in {AfterLines(ScopePrelude, Interpreter(seed))} :
          /\ envs = st.envs
          /\ atoms = st.atoms
          /\ before = [envs |-> st.envs, atoms |-> st.atoms]
    /\ ast = Nil
    /\ result = [ok |-> TRUE, val |-> Nil]
    /\ maxDepth = 0
    /\ nlines = 0
    /\ borrows = NoBorrows
    /\ calls = <<>>

\* bindings added to or replaced in the root after the closures were made
RebindForms == {Def(name, Integer(v)) : name \in {"x", "y", "z"}, v \in 2..3}

\* calls of g and h, which read x through the root: from the REPL, under a
\* let* that binds x, from k whose frame binds x, and from both
ReadsRootForms ==
    { CallOf("g"),
      CallOf("h"),
      Let1("x", Integer(7), CallOf("h")),
      Let1("x", Integer(7), CallOf("g")),
      Form(<<Sym("k"), Integer(9)>>),
      Let1("x", Integer(7), Form(<<Sym("k"), Integer(9)>>)) }

\* calls of w, which reads z through the root
ReadsLaterForms == {CallOf("w"), Let1("z", Integer(7), CallOf("w"))}

\* calls of p and q, which read y and x through the frame they captured
ReadsFrameForms ==
    { CallOf("p"), Let1("y", Integer(7), CallOf("p")),
      CallOf("q"), Let1("x", Integer(7), CallOf("q")) }

RebindLine == \E form \in RebindForms : EVAL_line(form)

ReadsRootLine == \E form \in ReadsRootForms : EVAL_line(form)

ReadsLaterLine == \E form \in ReadsLaterForms : EVAL_line(form)

ReadsFrameLine == \E form \in ReadsFrameForms : EVAL_line(form)

NextScope == RebindLine \/ ReadsRootLine \/ ReadsLaterLine \/ ReadsFrameLine

SpecScope == InitScope /\ [][NextScope]_vars

\* what the root frame held for name when the last line started: the value,
\* or the error of fetch
RootHeld(name) ==
    IF Text[name] \in DOMAIN before.envs[RootEnv].data
    THEN Value(before.envs[RootEnv].data[Text[name]])
    ELSE Raised(<<"UnknownSymbol", Text[name]>>)

\* C15: a closure reads its free symbols through the frame it was created
\* in: g, h and w read the root's x and z as they are when the call is made,
\* p and q read the y and x of the let* frame and the call frame they
\* captured, and a binding of the name in the frame of a let* around the call
\* or of the calling closure changes nothing.
C15_FreeSymbolsThroughCapturedFrame ==
    /\ ast \in ReadsRootForms => result = RootHeld("x")
    /\ ast \in ReadsLaterForms => result = RootHeld("z")
    /\ ast \in {CallOf("p"), Let1("y", Integer(7), CallOf("p"))} => result = Value(Integer(5))
    /\ ast \in {CallOf("q"), Let1("x", Integer(7), CallOf("q"))} => result = Value(Integer(4))

\* (def! x 2), then (let* (x 7) (k 9)) gave 2
C15_RebindingSeenShadowingNot ==
    /\ nlines = 2
    /\ before.envs[RootEnv].data[Text["x"]] = Integer(2)
    /\ ast = Let1("x", Integer(7), Form(<<Sym("k"), Integer(9)>>))
    /\ result = Value(Integer(2))

(***************************************************************************)
(* environment.rs on its own: set, get, fetch and spawn_from applied to    *)
(* the frames that grow from a root that binds y, as the root of           *)
(* Environment::default binds its names.  ast is the last call and result  *)
(* what it returned.                                                       *)
(***************************************************************************)
EnvKeys == {Text["x"], Text["y"]}

\* the key and the values the model gives set
SetKeys == {Text["x"]}

EnvValues == {Integer(1), Integer(2)}

Frames == 1..Len(envs)

InitEnv ==
    /\ seed = 0
    /\ envs = <<[data |-> (Text["y"] :> Integer(0)), parent |-> 0]>>
    /\ atoms = <<>>
    /\ before = [envs |-> envs, atoms |-> atoms]
    /\ ast = Nil
    /\ result = None
    /\ maxDepth = 0
    /\ nlines = 0
    /\ borrows = NoBorrows
    /\ calls = <<>>

\* env.set(key, value)
Environment_set ==
    \E env \in Frames, key \in SetKeys, value \in EnvValues :
        /\ ast' = <<"set", env, key, value>>
        /\ result' = env_set_returns(Heap(envs, atoms, seed), env, key)
        /\ envs' = env_set(Heap(envs, atoms, seed), env, key, value).envs
        /\ UNCHANGED <<atoms, seed, before, maxDepth, nlines, borrows, calls>>

\* env.get(key)
Environment_get ==
    \E env \in Frames, key \in EnvKeys :
        /\ ast' = <<"get", env, key>>
        /\ result' = env_get(Heap(envs, atoms, seed), env, key)
        /\ UNCHANGED <<envs, atoms, seed, before, maxDepth, nlines, borrows, calls>>

\* env.fetch(key)
Environment_fetch ==
    \E env \in Frames, key \in EnvKeys :
        /\ ast' = <<"fetch", env, key>>
        /\ result' = OkOrErr(fetch(Heap(envs, atoms, seed), env, key))
        /\ UNCHANGED <<envs, atoms, seed, before, maxDepth, nlines, borrows, calls>>

\* Environment::spawn_from(parent)
Environment_spawn_from ==
    /\ Len(envs) < MaxFrames
    /\ \E parent \in Frames :
        /\ ast' = <<"spawn_from", parent>>
        /\ envs' = spawn_from(Heap(envs, atoms, seed), parent).envs
        /\ result' = spawned(spawn_from(Heap(envs, atoms, seed), parent))
        /\ UNCHANGED <<atoms, seed, before, maxDepth, nlines, borrows, calls>>

NextEnv == Environment_set \/ Environment_get \/ Environment_fetch \/ Environment_spawn_from

SpecEnv == InitEnv /\ [][NextEnv]_vars

\* env and its ancestors, up to the root
RECURSIVE ChainOf(_)
ChainOf(env) == IF env = 0 THEN {} ELSE {env} \cup ChainOf(envs[env].parent)

\* the frames on the chain of env that bind key
Binders(env, key) == {frame \in ChainOf(env) : key \in DOMAIN envs[frame].data}

\* the binder nearest to env: a frame is made after its parent, so it is the
\* binder made last
Nearest(env, key) ==
    CHOOSE frame \in Binders(env, key) : \A other \in Binders(env, key) : other <= frame

\* what a lookup of key from env finds: Some(value) of the nearest binder
Found(env, key) ==
    IF Binders(env, key) = {} THEN None ELSE Some(envs[Nearest(env, key)].data[key])

GetStep ==
    ast'[1] = "get" => result' = Found(ast'[2], ast'[3])

FetchStep ==
    ast'[1] = "fetch" =>
        result' = IF Found(ast'[2], ast'[3]) = None
                  THEN Raised(<<"UnknownSymbol", ast'[3]>>)
                  ELSE Value(Found(ast'[2], ast'[3])[1])

\* set binds key in the frame it is called on and returns what that frame
\* held for key; every other key and every other frame stay as they were
SetStep ==
    ast'[1] = "set" =>
        /\ Len(envs') = Len(envs)
        /\ envs'[ast'[2]].data[ast'[3]] = ast'[4]
        /\ result' = (IF ast'[3] \in DOMAIN envs[ast'[2]].data
                      THEN Some(envs[ast'[2]].data[ast'[3]]) ELSE None)
        /\ \A frame \in Frames :
            /\ envs'[frame].parent = envs[frame].parent
            /\ DOMAIN envs'[frame].data =
                    DOMAIN envs[frame].data \cup (IF frame = ast'[2] THEN {ast'[3]} ELSE {})
            /\ \A key \in DOMAIN envs[frame].data :
                    (frame # ast'[2] \/ key # ast'[3])
                        => envs'[frame].data[key] = envs[frame].data[key]

SpawnStep ==
    ast'[1] = "spawn_from" =>
        /\ envs' = Append(envs, [data |-> <<>>, parent |-> ast'[2]])
        /\ result' = Len(envs')

\* C16: get returns the value of the nearest frame on the chain to the root
\* that binds the name, and nothing when none does (fetch: UnknownSymbol);
\* set changes only the frame it is called on and returns the value that
\* frame held for the name; spawn_from returns a new empty frame whose parent
\* is the frame given; get and fetch change no frame.
C16_EnvironmentOperations ==
    [][ /\ GetStep
        /\ FetchStep
        /\ SetStep
        /\ SpawnStep
        /\ Len(envs') # Len(envs) => ast'[1] = "spawn_from"
        /\ ast'[1] \in {"get", "fetch"} => envs' = envs ]_vars

\* two children of the root: x is bound in the root and in the second frame,
\* and a get of x from the third frame returned the root's value
C16_GetThroughParentPastSibling ==
    /\ Len(envs) = 3
    /\ envs[2].parent = 1 /\ envs[3].parent = 1
    /\ envs[1].data = (Text["x"] :> Integer(1) @@ Text["y"] :> Integer(0))
    /\ envs[2].data = (Text["x"] :> Integer(2))
    /\ envs[3].data = <<>>
    /\ ast = <<"get", 3, Text["x"]>>
    /\ result = Some(Integer(1))

(***************************************************************************)
(* let*.                                                                   *)
(***************************************************************************)
\* (let* bindings body)
Let(bindings, body) == Form(<<Sym("let*"), bindings, body>>)

\* (let* (a 1 b (+ a 2)) (* a b))
LetExample ==
    Let(Form(<<Sym("a"), Integer(1), Sym("b"), Form(<<Sym("+"), Sym("a"), Integer(2)>>)>>),
        Form(<<Sym("*"), Sym("a"), Sym("b")>>))

GoodLetForms ==
    { LetExample,
      Let(Form(<<>>), Integer(7)),
      Let(Vector(<<Sym("a"), Integer(1)>>), Sym("a")),
      Let(Form(<<Sym("x"), Integer(5)>>), Sym("x")),
      Let(Form(<<Sym("a"), Integer(1), Sym("a"), Form(<<Sym("+"), Sym("a"), Integer(1)>>)>>),
          Sym("a")),
      Let(Form(<<Sym("y"), Def("z", Integer(4))>>), Sym("z")),
      Let(Form(<<Sym("a"), Integer(1)>>), Def("a", Integer(2))),
      Let(Form(<<Sym("a"), Integer(1)>>), Quote(OnePlusTwo)),
      Let(Form(<<Sym("a"), Integer(1)>>),
          Let(Form(<<Sym("b"), Sym("a")>>), Form(<<Sym("+"), Sym("a"), Sym("b")>>))),
      Let(Form(<<Sym("a"), Throw(Str("boom")), Sym("b"), Def("z", Integer(4))>>), Sym("a")),
      Let(Form(<<Sym("b"), Sym("a"), Sym("a"), Integer(1)>>), Sym("b")) }

BadLetForms ==
    { Let(Form(<<Sym("a"), Integer(1), Sym("b")>>), Sym("a")),
      Let(Form(<<Sym("a")>>), Integer(7)),
      Let(Form(<<Sym("a"), Integer(1), Integer(2), Integer(3)>>), Sym("a")),
      Let(Form(<<Integer(1), Integer(2)>>), Integer(3)),
      Let(Vector(<<Str("a"), Integer(2)>>), Integer(3)) }

\* (def! x 1) and (def! a 9): bindings of the root that a let* shadows
LetRootForms == {Def("x", Integer(1)), Def("a", Integer(9))}

GoodLetLine == \E form \in GoodLetForms : EVAL_line(form)

BadLetLine == \E form \in BadLetForms : EVAL_line(form)

LetRootLine == \E form \in LetRootForms : EVAL_line(form)

NextLet == GoodLetLine \/ BadLetLine \/ LetRootLine

SpecLet == Init /\ [][NextLet]_vars

\* bindings i, i + 2, ... evaluated in the frame child and bound in it, in
\* order, up to the first error: the heap afterwards, or the error
RECURSIVE BindInOrder(_, _, _, _)
BindInOrder(bindings, i, child, st) ==
    IF i > Len(bindings) THEN Ok(child, st)
    ELSE LET value == EVAL(bindings[i + 1], child, st)
         IN IF ~value.ok THEN value
            ELSE BindInOrder(bindings, i + 2, child,
                             env_set(value.st, child, Payload(bindings[i]), value.val))

\* a new child of env, the bindings bound in it in order, the body evaluated
\* in it once
LetOnce(args, env, st) ==
    LET child == Len(st.envs) + 1
        bound == BindInOrder(Payload(args[1]), 1, child,
                             [st EXCEPT !.envs = Append(@, [data |-> <<>>, parent |-> env])])
    IN IF ~bound.ok THEN bound ELSE EVAL(args[2], child, bound.st)

\* the bindings have an odd length or a name that is no symbol
IllFormed(bindings) ==
    \/ Len(bindings) % 2 = 1
    \/ \E i \in 1..Len(bindings) : i % 2 = 1 /\ Tag(bindings[i]) # "Symbol"

\* C17: (let* (s1 v1 ... sn vn) body) in env E makes a child C of E, evaluates
\* each vi in C and binds si in C, in order, then evaluates body in C, once;
\* the bindings of E are what they were; bindings of odd length or with a name
\* that is no symbol are an error.
C17_LetBindsSequentiallyInChild ==
    (IsSpecialForm("let*") /\ Len(Operands) = 2 /\ is_seq(Operands[1])) =>
        /\ envs[RootEnv] = before.envs[RootEnv]
        /\ IF IllFormed(Payload(Operands[1])) THEN ~result.ok
           ELSE Matches(LetOnce(Operands, RootEnv, Before))

\* (let* (a 1 b (+ a 2)) (* a b)) gave 3 with a bound to 9 in the root
C17_LetExampleIsThree ==
    /\ ast = LetExample
    /\ Text["a"] \in DOMAIN before.envs[RootEnv].data
    /\ before.envs[RootEnv].data[Text["a"]] = Integer(9)
    /\ envs[RootEnv].data[Text["a"]] = Integer(9)
    /\ result = Value(Integer(3))

(***************************************************************************)
(* def!.                                                                   *)
(***************************************************************************)
\* def! forms that bind: (def! x 5), (def! y x), (def! x (+ x 1)), (def! z (def! x 2))
GoodDefForms ==
    { Def("x", Integer(5)),
      Def("y", Sym("x")),
      Def("x", Form(<<Sym("+"), Sym("x"), Integer(1)>>)),
      Def("z", Def("x", Integer(2))) }

\* def! forms with a wrong argument count, a key that is no symbol, or a
\* value that raises
BadDefForms ==
    { Form(<<Sym("def!")>>),
      Form(<<Sym("def!"), Sym("x")>>),
      Form(<<Sym("def!"), Sym("x"), Integer(1), Integer(2)>>),
      Form(<<Sym("def!"), Integer(1), Integer(2)>>),
      Form(<<Sym("def!"), Str("x"), Integer(2)>>),
      Def("x", Throw(Str("boom"))),
      Def("x", Sym("q")) }

DefForms == GoodDefForms \cup BadDefForms

DefPlaces == {"root", "let", "closure", "nested"}

\* the form d at the top level, in the frame of (let* (x 3) d), in the frame
\* of the call ((fn* (x) d) 3), or in the inner frame of
\* (let* (x 3) (let* (z 2) d))
DefIn(place, d) ==
    CASE place = "root" -> d
      [] place = "let" -> Let1("x", Integer(3), d)
      [] place = "closure" -> Form(<<Fn(<<"x">>, d), Integer(3)>>)
      [] place = "nested" -> Let1("x", Integer(3), Let1("z", Integer(2), d))

DefRootLine == \E d \in DefForms : EVAL_line(DefIn("root", d))

DefLetLine == \E d \in DefForms : EVAL_line(DefIn("let", d))

DefClosureLine == \E d \in DefForms : EVAL_line(DefIn("closure", d))

DefNestedLine == \E d \in DefForms : EVAL_line(DefIn("nested", d))

NextDef == DefRootLine \/ DefLetLine \/ DefClosureLine \/ DefNestedLine

SpecDef == Init /\ [][NextDef]_vars

\* the heap st with a new frame appended that is a child of parent and binds
\* name to value
WithFrame(st, parent, name, value) ==
    [st EXCEPT !.envs = Append(@, [data |-> Text[name] :> value, parent |-> parent])]

\* the heap in which the def! of a line in place starts
DefHeap(place) ==
    CASE place = "root" -> Before
      [] place \in {"let", "closure"} -> WithFrame(Before, RootEnv, "x", Integer(3))
      [] place = "nested" ->
            WithFrame(WithFrame(Before, RootEnv, "x", Integer(3)),
                      Len(before.envs) + 1, "z", Integer(2))

\* the frame in which the def! of a line in place is evaluated
DefFrame(place) == IF place = "root" THEN RootEnv ELSE Len(DefHeap(place).envs)

\* st with key bound to value in the frame env and in no other frame
BoundIn(st, env, key, value) ==
    [st EXCEPT !.envs[env].data =
        [k \in DOMAIN @ \cup {key} |-> IF k = key THEN value ELSE @[k]]]

\* (def! key expr) with operands args, once, in the frame env
DefOnce(args, env, st) ==
    IF Len(args) # 2 \/ Tag(args[1]) # "Symbol" THEN [ok |-> FALSE, val |-> <<>>, st |-> st]
    ELSE LET value == EVAL(args[2], env, st)
         IN IF ~value.ok THEN value
            ELSE Ok(value.val, BoundIn(value.st, env, Payload(args[1]), value.val))

\* the line gave what expected gives: the same value or some error, and the
\* same heap
GaveOrFailed(expected) ==
    /\ result.ok = expected.ok
    /\ expected.ok => result.val = expected.val
    /\ envs = expected.st.envs
    /\ atoms = expected.st.atoms

\* C18: (def! sym expr) in a frame E evaluates expr in E, binds sym to the
\* value in E itself and in no other frame, and returns the value; with an
\* argument count other than 2, a sym that is no symbol, or an expr that
\* raises, it returns an error and binds nothing.
C18_DefBindsInOwnFrameOnly ==
    \A place \in DefPlaces, d \in DefForms :
        ast = DefIn(place, d) =>
            /\ GaveOrFailed(DefOnce(Tail(Payload(d)), DefFrame(place), DefHeap(place)))
            /\ place # "root" => envs[RootEnv] = before.envs[RootEnv]
            /\ d \in BadDefForms => (~result.ok /\ envs = DefHeap(place).envs)

\* (def! x 5) in the inner frame of two let* frames gave 5 and bound x there,
\* with x still 3 in the outer frame and 2 in the root
C18_DefInInnerFrame ==
    /\ ast = DefIn("nested", Def("x", Integer(5)))
    /\ result = Value(Integer(5))
    /\ Len(envs) = Len(before.envs) + 2
    /\ envs[Len(envs)].data[Text["x"]] = Integer(5)
    /\ envs[Len(envs) - 1].data[Text["x"]] = Integer(3)
    /\ Text["x"] \in DOMAIN envs[RootEnv].data
    /\ envs[RootEnv].data[Text["x"]] = Integer(2)

(***************************************************************************)
(* defmacro!.                                                              *)
(***************************************************************************)
Defmacro(name, value) == Form(<<Sym("defmacro!"), Sym(name), value>>)

\* (fn* (a b) b)
SecondOf == Fn(<<"a", "b">>, Sym("b"))

\* defmacro! of a closure: a fn* form, and f, a closure of the root
ClosureDefmacroForms ==
    {Defmacro("m", SecondOf), Defmacro("m", Sym("f")), Defmacro("f", Sym("f"))}

\* defmacro! of a value that is no closure: a number, the primitive +, a
\* string, an empty list, nil
OtherDefmacroForms ==
    { Defmacro("m", Integer(1)),
      Defmacro("m", Sym("+")),
      Defmacro("m", Str("a")),
      Defmacro("f", Form(<<Sym("list")>>)),
      Defmacro("m", Nil) }

\* (name (throw "boom") 5), (name q 5), (name 1 (+ 1 2)), (name 1)
CallsWith(name) ==
    { Form(<<Sym(name), Throw(Str("boom")), Integer(5)>>),
      Form(<<Sym(name), Sym("q"), Integer(5)>>),
      Form(<<Sym(name), Integer(1), OnePlusTwo>>),
      Form(<<Sym(name), Integer(1)>>) }

\* the interpreter after (def! f (fn* (a b) b))
InitDefmacro ==
    /\ seed \in {0, 1}
    /\ \E st \in {AfterLines(<<Def("f", SecondOf)>>, Interpreter(seed))} :
        /\ envs = st.envs
        /\ atoms = st.atoms
        /\ before = [envs |-> st.envs, atoms |-> st.atoms]
    /\ ast = Nil
    /\ result = Value(Nil)
    /\ maxDepth = 0
    /\ nlines = 0
    /\ borrows = NoBorrows
    /\ calls = <<>>

ClosureDefmacroLine == \E form \in ClosureDefmacroForms : EVAL_line(form)

OtherDefmacroLine == \E form \in OtherDefmacroForms : EVAL_line(form)

MacroCallLine == \E form \in CallsWith("m") : EVAL_line(form)

FunctionCallLine == \E form \in CallsWith("f") : EVAL_line(form)

NextDefmacro == ClosureDefmacroLine \/ OtherDefmacroLine \/ MacroCallLine \/ FunctionCallLine

SpecDefmacro == InitDefmacro /\ [][NextDefmacro]_vars

\* the frame of a call: each positional parameter bound to its argument
Positionals(positional, args) ==
    [k \in {positional[i] : i \in 1..Len(positional)} |->
        args[CHOOSE i \in 1..Len(positional) : positional[i] = k]]

\* the closure c applied to args as they are: its body evaluated in a new
\* child of the frame it captured
AppliedTo(c, args, st) ==
    EVAL(c.body, Len(st.envs) + 1,
         [st EXCEPT !.envs = Append(@, [data |-> Positionals(c.parameters.positional, args),
                                        parent |-> c.parent])])

\* a macro call: the macro applied to the operands as they are written, and
\* what it returns evaluated in env
Expanded(c, args, env, st) ==
    LET expansion == AppliedTo(c, args, st)
    IN IF ~expansion.ok THEN expansion ELSE EVAL(expansion.val, env, expansion.st)

\* a function call: the operands evaluated in order, and the function
\* applied to their values
CalledWith(c, args, env, st) ==
    LET first == EVAL(args[1], env, st)
    IN IF ~first.ok THEN first
       ELSE LET second == EVAL(args[2], env, first.st)
            IN IF ~second.ok THEN second
               ELSE AppliedTo(c, <<first.val, second.val>>, second.st)

\* what the root held for name before the line
HeldBefore(name) == before.envs[RootEnv].data[Text[name]]

IsMacroBefore(name) ==
    /\ Text[name] \in DOMAIN before.envs[RootEnv].data
    /\ Tag(HeldBefore(name)) = "Closure"
    /\ Payload(HeldBefore(name)).is_macro

IsFunctionBefore(name) ==
    /\ Text[name] \in DOMAIN before.envs[RootEnv].data
    /\ Tag(HeldBefore(name)) = "Closure"
    /\ ~Payload(HeldBefore(name)).is_macro

\* the line is (defmacro! sym expr): a closure is bound as a macro and
\* returned, any other value is a type error that leaves every frame as it was
DefmacroStep ==
    (IsSpecialForm("defmacro!") /\ Len(Operands) = 2) =>
        LET value == EVAL(Operands[2], RootEnv, Before)
            macro == Closure([is_macro |-> TRUE,
                              parameters |-> Payload(value.val).parameters,
                              body |-> Payload(value.val).body,
                              parent |-> Payload(value.val).parent])
        IN /\ value.ok
           /\ IF Tag(value.val) = "Closure"
              THEN Matches(Ok(macro, BoundIn(value.st, RootEnv, Payload(Operands[1]), macro)))
              ELSE /\ result = Raised(TypeMismatch("NotAClosure"))
                   /\ envs = before.envs
                   /\ atoms = before.atoms

\* the line is a list headed by a name that the root binds to a macro: the
\* operands are passed as they are written and the expansion is evaluated
MacroStep ==
    \A name \in {"m", "f"} :
        (ast \in CallsWith(name) /\ IsMacroBefore(name)) =>
            IF Len(Operands) = 2
            THEN Matches(Expanded(Payload(HeldBefore(name)), Operands, RootEnv, Before))
            ELSE ~result.ok

\* the line is a list headed by a name that the root binds to a closure that
\* is no macro: the operands are evaluated first
FunctionStep ==
    \A name \in {"m", "f"} :
        (ast \in CallsWith(name) /\ IsFunctionBefore(name)) =>
            IF Len(Operands) = 2
            THEN Matches(CalledWith(Payload(HeldBefore(name)), Operands, RootEnv, Before))
            ELSE ~result.ok

\* C19: (defmacro! sym expr) binds sym to the closure expr gives with is_macro
\* set; a value that is no closure, a primitive included, is the type error
\* NotAClosure and changes no frame; afterwards a list headed by sym is
\* expanded with its operands unevaluated, not applied as a function.
C19_DefmacroMakesMacro == DefmacroStep /\ MacroStep /\ FunctionStep

\* after (defmacro! m f), (m (throw "boom") 5) gave 5
C19_MacroOperandsUnevaluated ==
    /\ ast = Form(<<Sym("m"), Throw(Str("boom")), Integer(5)>>)
    /\ IsMacroBefore("m")
    /\ IsFunctionBefore("f")
    /\ result = Value(Integer(5))

(***************************************************************************)
(* Closure application.                                                    *)
(***************************************************************************)
\* parameter lists fn* accepts, each with a body that returns one of them:
\* (), (a b), (& xs), (a & xs)
GoodParameters ==
    { [params |-> <<>>, body |-> Integer(7)],
      [params |-> <<"a", "b">>, body |-> Sym("b")],
      [params |-> <<"&", "xs">>, body |-> Sym("xs")],
      [params |-> <<"a", "&", "xs">>, body |-> Sym("xs")] }

\* parameter lists with & last, first of three, twice, or alone
BadParameters ==
    { [params |-> <<"a", "&">>, body |-> Integer(7)],
      [params |-> <<"&", "a", "b">>, body |-> Integer(7)],
      [params |-> <<"a", "&", "&", "b">>, body |-> Integer(7)],
      [params |-> <<"&">>, body |-> Integer(7)] }

MaxArgs == 3

\* the arguments 1, ..., n
Arguments(n) == [i \in 1..n |-> Integer(i)]

\* ((fn* (params) body) 1 ... n)
CallFn(f, n) == Form(<<Fn(f.params, f.body)>> \o Arguments(n))

\* (let* (x 3) ((fn* (params) body) 1 ... n))
CallFnInLet(f, n) == Let1("x", Integer(3), CallFn(f, n))

GoodCallLine == \E f \in GoodParameters, n \in 0..MaxArgs : EVAL_line(CallFn(f, n))

BadFnLine == \E f \in BadParameters : EVAL_line(CallFn(f, 1))

CallInLetLine == \E f \in GoodParameters : EVAL_line(CallFnInLet(f, 2))

NextCall == GoodCallLine \/ BadFnLine \/ CallInLetLine

SpecCall == Init /\ [][NextCall]_vars

Ampersands(params) == {i \in 1..Len(params) : params[i] = "&"}

\* no &, or one & that is the last but one
WellFormed(params) ==
    \/ Ampersands(params) = {}
    \/ Len(params) >= 2 /\ Ampersands(params) = {Len(params) - 1}

HasRest(params) == Ampersands(params) # {}

\* the number of positional parameters
Positional(params) == IF HasRest(params) THEN Len(params) - 2 ELSE Len(params)

\* the frame of the call: the positional parameters bound to the first
\* arguments and the rest parameter to the list of the others
CallFrame(params, args, parent) ==
    [data |-> [key \in {Text[params[i]] : i \in 1..Len(params)} \ {Text["&"]} |->
                  IF HasRest(params) /\ key = Text[params[Len(params)]]
                  THEN List(SubSeq(args, Positional(params) + 1, Len(args)))
                  ELSE args[CHOOSE i \in 1..Positional(params) : Text[params[i]] = key]],
     parent |-> parent]

\* the call of a closure made in the frame captured of the heap frames: the
\* frames and the value afterwards when the count of arguments fits, and
\* BadArgCount with no new frame when it does not
CallStep(f, n, captured, frames) ==
    IF ~WellFormed(f.params)
    THEN /\ ~result.ok
         /\ result.val[1] = "Fn"
         /\ envs = frames
    ELSE IF (IF HasRest(f.params) THEN n >= Positional(f.params) ELSE n = Positional(f.params))
    THEN /\ envs = Append(frames, CallFrame(f.params, Arguments(n), captured))
         /\ result = Value(CASE f.body = Integer(7) -> Integer(7)
                             [] f.body = Sym("b") -> Integer(2)
                             [] f.body = Sym("xs") ->
                                    List(SubSeq(Arguments(n), Positional(f.params) + 1, n)))
    ELSE /\ ~result.ok
         /\ result.val[1] = "BadArgCount"
         /\ envs = frames

\* C20: a closure with k positional parameters and no rest parameter takes
\* exactly k arguments, one with a rest parameter (a single & last but one in
\* the list of fn*) takes k or more and binds the rest symbol to the list of
\* the arguments after the first k, the empty list when there are none; any
\* other count is BadArgCount; fn* rejects a list with & elsewhere or more
\* than once; the parameters are bound in a new child of the captured frame,
\* which is left as it was.
C20_ClosureArityAndRest ==
    \A f \in GoodParameters \cup BadParameters, n \in 0..MaxArgs :
        /\ ast = CallFn(f, n) => CallStep(f, n, RootEnv, before.envs)
        /\ ast = CallFnInLet(f, n) =>
               CallStep(f, n, Len(before.envs) + 1,
                        Append(before.envs,
                               [data |-> Text["x"] :> Integer(3), parent |-> RootEnv]))

\* ((fn* (a & xs) xs) 1) gave the empty list and ((fn* (a & xs) xs) 1 2 3)
\* had given (2 3)
C20_RestEmptyAfterRestOfTwo ==
    /\ ast = CallFn([params |-> <<"a", "&", "xs">>, body |-> Sym("xs")], 1)
    /\ result = Value(List(<<>>))
    /\ Len(envs) = 3
    /\ Text["xs"] \in DOMAIN envs[2].data
    /\ envs[2].data[Text["xs"]] = List(<<Integer(2), Integer(3)>>)
    /\ envs[3].data = (Text["a"] :> Integer(1)) @@ (Text["xs"] :> List(<<>>))
    /\ envs[3].parent = RootEnv

(***************************************************************************)
(* Integer arithmetic.                                                     *)
(***************************************************************************)
ArithOps == {"+", "-", "*", "/"}

\* integers at and near the ends of the range and around zero
ArithInts == {IntMin, IntMin + 1, -2, -1, 0, 1, 2, IntMax - 1, IntMax}

\* operands that are no integers
NonInts == {Str("a"), Nil, Bool(TRUE), Keyword(Text["a"])}

\* (op x y) for integers, (op x v) and (op v x) for a v that is no integer,
\* and + and * of no and of three operands
ArithForms ==
    {Form(<<Sym(op), Integer(x), Integer(y)>>) : op \in ArithOps, x \in ArithInts, y \in ArithInts}
    \cup {Form(<<Sym(op), Integer(x), v>>) : op \in ArithOps, x \in {0, 1}, v \in NonInts}
    \cup {Form(<<Sym(op), v, Integer(x)>>) : op \in ArithOps, x \in {0, 1}, v \in NonInts}
    \cup {Form(<<Sym(op)>>) : op \in {"+", "*"}}
    \cup {Form(<<Sym(op), Integer(IntMax), Integer(2), Integer(x)>>) :
             op \in {"+", "*"}, x \in {IntMax, 2}}

InitArith ==
    /\ seed \in {0, 1}
    /\ \E st \in {Interpreter(seed)} :
          /\ envs = st.envs
          /\ atoms = st.atoms
          /\ before = [envs |-> st.envs, atoms |-> st.atoms]
    /\ ast \in ArithForms
    /\ result = [ok |-> TRUE, val |-> Nil]
    /\ maxDepth = 0
    /\ nlines = 0
    /\ borrows = NoBorrows
    /\ calls = <<>>

\* the line (op x y)
ArithLine ==
    /\ nlines = 0
    /\ EVAL_line(ast)

NextArith == ArithLine

SpecArith == InitArith /\ [][NextArith]_vars

\* the integer of the range that differs from n by a multiple of 2^IntBits
InRange(n) == CHOOSE r \in {n - IntModulus, n, n + IntModulus} : IntMin <= r /\ r <= IntMax

\* x * y modulo 2^IntBits, by doubling over the bits of y >= 0
RECURSIVE ProductMod(_, _)
ProductMod(x, y) ==
    IF y = 0 THEN 0
    ELSE (2 * ProductMod(x, y \div 2) + (y % 2) * (x % IntModulus)) % IntModulus

\* q is the quotient of x by y truncated towards zero
IsQuotient(q, x, y) ==
    LET rem == x - q * y
    IN /\ (IF rem < 0 THEN -rem ELSE rem) < (IF y < 0 THEN -y ELSE y)
       /\ rem = 0 \/ (rem < 0) = (x < 0)

ArithOperands == Tail(Payload(ast))

ArithOp == Payload(ast)[1]

AllInts == \A i \in 1..Len(ArithOperands) : Tag(ArithOperands[i]) = "Integer"

\* the sum and the product of the operands from i on, modulo 2^IntBits
RECURSIVE SumMod(_), ProductOfMod(_)
SumMod(i) ==
    IF i > Len(ArithOperands) THEN 0
    ELSE (Payload(ArithOperands[i]) + SumMod(i + 1)) % IntModulus

ProductOfMod(i) ==
    IF i > Len(ArithOperands) THEN 1
    ELSE ProductMod(ProductOfMod(i + 1), Payload(ArithOperands[i]) % IntModulus)

\* C21: + - * give the result wrapped to IntBits bits in two's complement and
\* never fail on integers; / by 0 is DivideByZero for every dividend and is
\* the truncated quotient otherwise, wrapped for the least integer by -1; an
\* operand that is no integer is a type mismatch.
C21_IntegerArithmeticWraps ==
    (nlines = 1) =>
        IF ~AllInts THEN ~result.ok /\ result.val[1] = "TypeMismatch"
        ELSE CASE ArithOp = Sym("+") ->
                    result = Value(Integer(InRange(SumMod(1))))
               [] ArithOp = Sym("*") ->
                    result = Value(Integer(InRange(ProductOfMod(1))))
               [] ArithOp = Sym("-") ->
                    result = Value(Integer(InRange(Payload(ArithOperands[1])
                                                   - Payload(ArithOperands[2]))))
               [] ArithOp = Sym("/") ->
                    LET x == Payload(ArithOperands[1])
                        y == Payload(ArithOperands[2])
                    IN IF y = 0 THEN result = Raised(<<"DivideByZero">>)
                       ELSE /\ result.ok
                            /\ Tag(result.val) = "Integer"
                            /\ IF x = IntMin /\ y = -1 THEN Payload(result.val) = IntMin
                               ELSE IsQuotient(Payload(result.val), x, y)

\* (* IntMax 2) gave -2
C21_ProductOverflowWrapped ==
    /\ ast = Form(<<Sym("*"), Integer(IntMax), Integer(2)>>)
    /\ result = Value(Integer(-2))

(***************************************************************************)
(* The eval bridge.                                                        *)
(***************************************************************************)
\* forms handed to eval: y, (def! z 4), (+ 1 2), (def! y 7)
EvalForms ==
    { Sym("y"), Def("z", Integer(4)), OnePlusTwo, Def("y", Integer(7)),
      Let1("z", Integer(2), Sym("y")) }

EvalPlaces == {"root", "let", "closure"}

\* (eval (quote form)) at the top level, in the frame of (let* (y 5) ...), or
\* in the frame of the call ((fn* (y) ...) 5)
EvalIn(place, form) ==
    LET call == Form(<<Sym("eval"), Quote(form)>>)
    IN CASE place = "root" -> call
         [] place = "let" -> Let1("y", Integer(5), call)
         [] place = "closure" -> Form(<<Fn(<<"y">>, call), Integer(5)>>)

\* (let* (y 5) (eval (list (quote def!) (quote z) y))): the form is built in
\* the frame of the caller and evaluated in the root
EvalBuilt ==
    Let1("y", Integer(5),
         Form(<<Sym("eval"),
                Form(<<Sym("list"), Quote(Sym("def!")), Quote(Sym("z")), Sym("y")>>)>>))

\* eval with no argument and with two
EvalBadCounts == {Form(<<Sym("eval")>>), Form(<<Sym("eval"), Integer(1), Integer(2)>>)}

EvalRootLine == \E form \in EvalForms : EVAL_line(EvalIn("root", form))

EvalLetLine == \E form \in EvalForms : EVAL_line(EvalIn("let", form))

EvalClosureLine == \E form \in EvalForms : EVAL_line(EvalIn("closure", form))

EvalBuiltLine == EVAL_line(EvalBuilt)

EvalBadCountLine == \E form \in EvalBadCounts : EVAL_line(form)

NextEval == EvalRootLine \/ EvalLetLine \/ EvalClosureLine \/ EvalBuiltLine \/ EvalBadCountLine

SpecEval == Init /\ [][NextEval]_vars

\* the heap in which the eval of a line in place starts
EvalHeap(place) ==
    IF place = "root" THEN Before ELSE WithFrame(Before, RootEnv, "y", Integer(5))

\* C22: (eval form) takes one argument and evaluates it in the root frame
\* wherever it is called: a symbol bound only in the let* or closure frame of
\* the caller is unknown to form, and a def! of form binds in the root.
C22_EvalInRoot ==
    /\ \A place \in EvalPlaces, form \in EvalForms :
          ast = EvalIn(place, form) =>
              /\ Matches(EVAL(form, RootEnv, EvalHeap(place)))
              /\ (form = Sym("y") /\ Text["y"] \notin DOMAIN before.envs[RootEnv].data) =>
                     result = Raised(<<"UnknownSymbol", Text["y"]>>)
              /\ form = Def("z", Integer(4)) =>
                     /\ Text["z"] \in DOMAIN envs[RootEnv].data
                     /\ envs[RootEnv].data[Text["z"]] = Integer(4)
                     /\ place # "root" => DOMAIN envs[Len(envs)].data = {Text["y"]}
    /\ ast = EvalBuilt =>
          Matches(Ok(Integer(5), BoundIn(EvalHeap("let"), RootEnv, Text["z"], Integer(5))))
    /\ ast \in EvalBadCounts =>
          /\ ~result.ok
          /\ result.val[1] = "BadArgCount"
          /\ envs = before.envs

\* (let* (y 5) (eval (quote y))) gave 7, the y of the root, after an eval in
\* a closure frame had bound it
C22_EvalSeesRootBindingOnly ==
    /\ ast = EvalIn("let", Sym("y"))
    /\ result = Value(Integer(7))
    /\ Len(envs) = 3
    /\ envs[2].data = (Text["y"] :> Integer(5))
    /\ envs[3].data = (Text["y"] :> Integer(5))

(***************************************************************************)
(* Containers.                                                             *)
(***************************************************************************)
KeyK == Keyword(Text["k"])

KeyA == Keyword(Text["a"])

OneTwo == <<Integer(1), Integer(2)>>

\* (def! xs (list 1 2)) (def! y [1 2]) (def! m (hash-map :k 1)) (def! b xs)
\* (def! a (atom xs)) (def! c (atom m))
ContainerPrelude ==
    << Def("xs", Form(<<Sym("list"), Integer(1), Integer(2)>>)),
       Def("y", Vector(OneTwo)),
       Def("m", Form(<<Sym("hash-map"), KeyK, Integer(1)>>)),
       Def("b", Sym("xs")),
       Def("a", Form(<<Sym("atom"), Sym("xs")>>)),
       Def("c", Form(<<Sym("atom"), Sym("m")>>)) >>

InitContainers ==
    /\ seed \in {0, 1}
    /\ \E st \in {AfterLines(ContainerPrelude, Interpreter(seed))} :
          /\ envs = st.envs
          /\ atoms = st.atoms
          /\ before = [envs |-> st.envs, atoms |-> st.atoms]
    /\ ast = Nil
    /\ result = [ok |-> TRUE, val |-> Nil]
    /\ maxDepth = 0
    /\ nlines = 0
    /\ borrows = NoBorrows
    /\ calls = <<>>

\* calls of cons, concat, conj, rest, assoc and dissoc on the containers the
\* root binds, each with the value it is to give
ContainerCalls ==
    { [form |-> Form(<<Sym("cons"), Integer(0), Sym("xs")>>),
       gives |-> List(<<Integer(0)>> \o OneTwo)],
      [form |-> Form(<<Sym("cons"), Integer(0), Sym("y")>>),
       gives |-> List(<<Integer(0)>> \o OneTwo)],
      [form |-> Form(<<Sym("concat"), Sym("xs"), Sym("y")>>),
       gives |-> List(OneTwo \o OneTwo)],
      [form |-> Form(<<Sym("concat"), Sym("y")>>),
       gives |-> List(OneTwo)],
      [form |-> Form(<<Sym("conj"), Sym("xs"), Integer(3), Integer(4)>>),
       gives |-> List(<<Integer(4), Integer(3)>> \o OneTwo)],
      [form |-> Form(<<Sym("conj"), Sym("y"), Integer(3), Integer(4)>>),
       gives |-> Vector(OneTwo \o <<Integer(3), Integer(4)>>)],
      [form |-> Form(<<Sym("conj"), Sym("b"), Integer(3)>>),
       gives |-> List(<<Integer(3)>> \o OneTwo)],
      [form |-> Form(<<Sym("rest"), Sym("xs")>>),
       gives |-> List(<<Integer(2)>>)],
      [form |-> Form(<<Sym("rest"), Sym("y")>>),
       gives |-> List(<<Integer(2)>>)],
      [form |-> Form(<<Sym("assoc"), Sym("m"), KeyK, Integer(2)>>),
       gives |-> Map(KeyK :> Integer(2))],
      [form |-> Form(<<Sym("assoc"), Sym("m"), KeyA, Integer(3)>>),
       gives |-> Map((KeyK :> Integer(1)) @@ (KeyA :> Integer(3)))],
      [form |-> Form(<<Sym("dissoc"), Sym("m"), KeyK>>),
       gives |-> Map(<<>>)] }

\* (swap! a conj 9), (swap! a rest), (swap! a concat xs), (swap! c assoc :k 2),
\* (swap! c dissoc :k): the atom is given a new container built from the one
\* it holds
ContainerSwaps ==
    { Form(<<Sym("swap!"), Sym("a"), Sym("conj"), Integer(9)>>),
      Form(<<Sym("swap!"), Sym("a"), Sym("rest")>>),
      Form(<<Sym("swap!"), Sym("a"), Sym("concat"), Sym("xs")>>),
      Form(<<Sym("swap!"), Sym("c"), Sym("assoc"), KeyK, Integer(2)>>),
      Form(<<Sym("swap!"), Sym("c"), Sym("dissoc"), KeyK>>) }

\* (conj (deref a) 3), (rest (deref a)), (assoc (deref c) :a 3),
\* (dissoc (deref c) :k): a call on what an atom holds
ContainerDerefs ==
    { Form(<<Sym("conj"), Deref("a"), Integer(3)>>),
      Form(<<Sym("rest"), Deref("a")>>),
      Form(<<Sym("assoc"), Deref("c"), KeyA, Integer(3)>>),
      Form(<<Sym("dissoc"), Deref("c"), KeyK>>) }

ContainerCallLine == \E call \in ContainerCalls : EVAL_line(call.form)

ContainerSwapLine == \E form \in ContainerSwaps : EVAL_line(form)

ContainerDerefLine == \E form \in ContainerDerefs : EVAL_line(form)

NextContainers == ContainerCallLine \/ ContainerSwapLine \/ ContainerDerefLine

SpecContainers == InitContainers /\ [][NextContainers]_vars

\* what the root binds name to
Held(name) == envs[RootEnv].data[Text[name]]

\* the containers the prelude bound are what they were
OriginalsHeld ==
    /\ Held("xs") = List(OneTwo)
    /\ Held("b") = List(OneTwo)
    /\ Held("y") = Vector(OneTwo)
    /\ Held("m") = Map(KeyK :> Integer(1))

\* C23: cons, concat, conj, rest, assoc and dissoc give a new container and
\* leave their argument as it was: every binding and atom that held it still
\* holds the same contents; conj on a list puts the new elements in front,
\* the last added first, conj on a vector puts them at the end, and each gives
\* the kind of container it was given.
C23_ContainersImmutable ==
    /\ OriginalsHeld
    /\ \A call \in ContainerCalls :
          ast = call.form =>
              /\ result = Value(call.gives)
              /\ envs = before.envs
              /\ atoms = before.atoms
    /\ ast \in ContainerDerefs =>
          /\ result.ok
          /\ envs = before.envs
          /\ atoms = before.atoms
    /\ ast \in ContainerSwaps =>
          /\ result.ok
          /\ envs = before.envs
          /\ \A name \in {"a", "c"} :
                Payload(ast)[2] # Sym(name) =>
                    atoms[Payload(Held(name))] = before.atoms[Payload(Held(name))]

\* (conj xs 3 4) gave (4 3 1 2) after (swap! a conj 9) had given the atom
\* made from xs the list (9 1 2)
C23_ConjAfterSwapOnSharedList ==
    /\ ast = Form(<<Sym("conj"), Sym("xs"), Integer(3), Integer(4)>>)
    /\ result = Value(List(<<Integer(4), Integer(3)>> \o OneTwo))
    /\ atoms[Payload(Held("a"))] = List(<<Integer(9)>> \o OneTwo)
    /\ Held("xs") = List(OneTwo)

(***************************************************************************)
(* Evaluation order.                                                       *)
(***************************************************************************)
MaxElems == 3

\* (def! z (swap! a conj i)): element i puts i in front of the list the atom
\* a holds and binds z to the new list
Mark(i) == Def("z", Form(<<Sym("swap!"), Sym("a"), Sym("conj"), Integer(i)>>))

\* the elements 1, ..., MaxElems, with (throw "boom") in place of element r
Elements(r) == [i \in 1..MaxElems |-> IF i = r THEN Throw(Str("boom")) ELSE Mark(i)]

\* the names of the let* bindings
LetNames == <<"x", "y", "w", "p", "q">>

OrderShapes == {"list", "call", "vector", "do", "let"}

\* (list e1 ... en), ((if e0 list) e1 ... en), [e1 ... en], (do e1 ... en 7),
\* (let* (x e1 y e2 ...) 7)
Ordered(shape, r) ==
    CASE shape = "list" -> Form(<<Sym("list")>> \o Elements(r))
      [] shape = "call" -> Form(<<Form(<<Sym("if"), Mark(0), Sym("list")>>)>> \o Elements(r))
      [] shape = "vector" -> Vector(Elements(r))
      [] shape = "do" -> Form(<<Sym("do")>> \o Elements(r) \o <<Integer(7)>>)
      [] shape = "let" ->
            Let(Form([j \in 1..(2 * MaxElems) |->
                         IF j % 2 = 1 THEN Sym(LetNames[(j + 1) \div 2])
                         ELSE Elements(r)[j \div 2]]),
                Integer(7))

\* the interpreter after (def! a (atom (list)))
InitOrder ==
    /\ seed \in {0, 1}
    /\ \E st \in {AfterLines(<<Def("a", Form(<<Sym("atom"), Form(<<Sym("list")>>)>>))>>,
                             Interpreter(seed))} :
          /\ envs = st.envs
          /\ atoms = st.atoms
          /\ before = [envs |-> st.envs, atoms |-> st.atoms]
    /\ ast = Nil
    /\ result = [ok |-> TRUE, val |-> Nil]
    /\ maxDepth = 0
    /\ nlines = 0
    /\ borrows = NoBorrows
    /\ calls = <<>>

ApplicationLine ==
    \E shape \in {"list", "call"}, r \in 0..MaxElems : EVAL_line(Ordered(shape, r))

VectorLine == \E r \in 0..MaxElems : EVAL_line(Ordered("vector", r))

DoOrderLine == \E r \in 0..MaxElems : EVAL_line(Ordered("do", r))

LetOrderLine == \E r \in 0..MaxElems : EVAL_line(Ordered("let", r))

NextOrder == ApplicationLine \/ VectorLine \/ DoOrderLine \/ LetOrderLine

SpecOrder == InitOrder /\ [][NextOrder]_vars

\* the marks of the elements that run when element r raises (none when r = 0),
\* in the order they are to run
MarksRun(shape, r) ==
    LET first == IF shape = "call" THEN 0 ELSE 1
        last == IF r = 0 THEN MaxElems ELSE r - 1
    IN [i \in 1..(last - first + 1) |-> Integer(first + i - 1)]

\* the list the atom a held before the line
LogBefore == Payload(before.atoms[Payload(before.envs[RootEnv].data[Text["a"]])])

\* the list the atom a holds
Log == Payload(atoms[Payload(envs[RootEnv].data[Text["a"]])])

\* C24: the elements of an applied list and of a vector literal are evaluated
\* from left to right, each once; the forms of a do and the bindings of a
\* let* in source order; when element i raises, the elements after it are not
\* evaluated and the effects of the elements before it stay.
C24_EvaluatedLeftToRight ==
    \A shape \in OrderShapes, r \in 0..MaxElems :
        ast = Ordered(shape, r) =>
            /\ Log = Reverse(MarksRun(shape, r)) \o LogBefore
            /\ result.ok <=> r = 0
            /\ r # 0 => result = Raised(<<"UserException", Str("boom")>>)
            /\ (shape # "let" /\ MarksRun(shape, r) # <<>>) =>
                   /\ Text["z"] \in DOMAIN envs[RootEnv].data
                   /\ envs[RootEnv].data[Text["z"]] = List(Log)
            /\ (shape # "let" /\ MarksRun(shape, r) = <<>>) =>
                   envs[RootEnv] = before.envs[RootEnv]
            /\ shape = "let" => envs[RootEnv] = before.envs[RootEnv]

\* ((if e0 list) e1 e2 (throw "boom")) raised after e0, e1 and e2 had run in
\* that order
C24_RaiseAfterTwoElements ==
    /\ ast = Ordered("call", 3)
    /\ result = Raised(<<"UserException", Str("boom")>>)
    /\ Len(Log) >= 3
    /\ SubSeq(Log, 1, 3) = <<Integer(2), Integer(1), Integer(0)>>

(***************************************************************************)
(* Arity checks.                                                           *)
(***************************************************************************)
\* primitives of each kind of arity, the eval bridge, and the closures f and g
Callables == {"-", "count", "conj", "dissoc", "assoc", "hash-map", "list", "eval", "f", "g"}

\* the macros m and w, made from (fn* (a b) 7) and (fn* (a & xs) 7)
Macros == {"m", "w"}

\* special forms that validate an Arity
ArityForms == {"if", "try*", "quote"}

\* the counts of arguments each is declared to take
Fits(name, n) ==
    CASE name \in {"-", "f", "m"} -> n = 2
      [] name \in {"count", "eval", "quote"} -> n = 1
      [] name = "conj" -> n >= 2
      [] name \in {"dissoc", "g", "w"} -> n >= 1
      [] name = "assoc" -> n % 2 = 1
      [] name = "hash-map" -> n % 2 = 0
      [] name = "list" -> TRUE
      [] name = "if" -> 2 <= n /\ n <= 3
      [] name = "try*" -> 1 <= n /\ n <= 2

\* (name 1 ... n)
Direct(name, n) == Form(<<Sym(name)>> \o Arguments(n))

\* (apply name (list 1 ... n))
ViaApply(name, n) == Form(<<Sym("apply"), Sym(name), Form(<<Sym("list")>> \o Arguments(n))>>)

\* (swap! a name 1 ... n-1): name is called with what a holds and n - 1 more
ViaSwap(name, n) == Form(<<Sym("swap!"), Sym("a"), Sym(name)>> \o Arguments(n - 1))

\* (map name (list 1)): name is called with one argument
ViaMap(name) == Form(<<Sym("map"), Sym(name), Form(<<Sym("list"), Integer(1)>>)>>)

DirectForms == {Direct(name, n) : name \in Callables \cup ArityForms, n \in 0..MaxArgs}

ApplyForms == {ViaApply(name, n) : name \in Callables, n \in 0..MaxArgs}

SwapForms == {ViaSwap(name, n) : name \in Callables, n \in 1..MaxArgs}

MapForms == {ViaMap(name) : name \in Callables}

ExpandForms == {Direct(name, n) : name \in Macros, n \in 0..MaxArgs}

\* (def! a (atom 0)) (def! f (fn* (a b) 7)) (def! g (fn* (a & xs) 7))
\* (defmacro! m (fn* (a b) 7)) (defmacro! w (fn* (a & xs) 7))
ArityPrelude ==
    << Def("a", Form(<<Sym("atom"), Integer(0)>>)),
       Def("f", Fn(<<"a", "b">>, Integer(7))),
       Def("g", Fn(<<"a", "&", "xs">>, Integer(7))),
       Defmacro("m", Fn(<<"a", "b">>, Integer(7))),
       Defmacro("w", Fn(<<"a", "&", "xs">>, Integer(7))) >>

InitArity ==
    /\ seed \in {0, 1}
    /\ \E st \in {AfterLines(ArityPrelude, Interpreter(seed))} :
          /\ envs = st.envs
          /\ atoms = st.atoms
          /\ before = [envs |-> st.envs, atoms |-> st.atoms]
    /\ ast \in DirectForms \cup ApplyForms \cup SwapForms \cup MapForms \cup ExpandForms
    /\ result = [ok |-> TRUE, val |-> Nil]
    /\ maxDepth = 0
    /\ nlines = 0
    /\ borrows = NoBorrows
    /\ calls = <<>>

\* a call written in the line
DirectCallLine == nlines = 0 /\ ast \in DirectForms /\ EVAL_line(ast)

\* a call made by apply
ApplyCallLine == nlines = 0 /\ ast \in ApplyForms /\ EVAL_line(ast)

\* a call made by swap!
SwapCallLine == nlines = 0 /\ ast \in SwapForms /\ EVAL_line(ast)

\* a call made by map
MapCallLine == nlines = 0 /\ ast \in MapForms /\ EVAL_line(ast)

\* a call made by the expansion of a macro
ExpandCallLine == nlines = 0 /\ ast \in ExpandForms /\ EVAL_line(ast)

NextArity == DirectCallLine \/ ApplyCallLine \/ SwapCallLine \/ MapCallLine \/ ExpandCallLine

SpecArity == InitArity /\ [][NextArity]_vars

IsBadArgCount == ~result.ok /\ result.val # <<>> /\ result.val[1] = "BadArgCount"

\* the line called name with n arguments: it is BadArgCount with the heap as
\* it was exactly when n is no count that name takes
CheckedCall(name, n) ==
    /\ IsBadArgCount <=> ~Fits(name, n)
    /\ ~Fits(name, n) =>
          /\ result.val[4] = n
          /\ envs = before.envs
          /\ atoms = before.atoms

\* C25: on every path of a call (written in the line, made by apply, by map,
\* by swap! and by the expansion of a macro) the count of arguments is checked
\* against the declared arity before the body of the primitive, closure or
\* special form is entered: a count outside it is BadArgCount and nothing
\* else happens.
C25_ArityCheckedOnEveryPath ==
    (nlines = 1) =>
        /\ \A name \in Callables \cup ArityForms \cup Macros, n \in 0..MaxArgs :
              ast = Direct(name, n) => CheckedCall(name, n)
        /\ \A name \in Callables, n \in 0..MaxArgs :
              ast = ViaApply(name, n) => CheckedCall(name, n)
        /\ \A name \in Callables, n \in 1..MaxArgs :
              ast = ViaSwap(name, n) => CheckedCall(name, n)
        /\ \A name \in Callables :
              ast = ViaMap(name) => CheckedCall(name, 1)

\* (swap! a - 1 2) called - with three arguments: BadArgCount, and the atom
\* holds 0 as before
C25_SwapWithTooManyArguments ==
    /\ nlines = 1
    /\ ast = ViaSwap("-", 3)
    /\ IsBadArgCount
    /\ result.val[4] = 3
    /\ atoms[Payload(envs[RootEnv].data[Text["a"]])] = Integer(0)

(***************************************************************************)
(* The RefCells of the interpreter, statement by statement: the data of a  *)
(* frame (environment.rs) and the payload of an atom (types.rs).           *)
(* borrows.data[e] and borrows.payload[c] are their borrow flags as        *)
(* RefCell keeps them: 0 unused, n > 0 for n shared borrows, -1 for the    *)
(* exclusive one.  calls is the host stack: the evaluator ("EVAL") and the *)
(* functions that borrow, each with the statement it is at.  result is the *)
(* panic of a refused borrow, None while there is none.                    *)
(***************************************************************************)
MaxCalls == 4

BorrowKeys == {Text["x"], Text["y"]}

\* what the evaluator stores: an integer, or the atom of the second cell
BorrowValues == {Integer(1), Atom(2)}

\* the root binds x, its child binds y; the second cell holds its own atom
InitBorrow ==
    /\ seed = 0
    /\ envs = <<[data |-> (Text["x"] :> Integer(0)), parent |-> 0],
                [data |-> (Text["y"] :> Integer(0)), parent |-> RootEnv]>>
    /\ atoms = <<Integer(0), Atom(2)>>
    /\ before = [envs |-> envs, atoms |-> atoms]
    /\ ast = Nil
    /\ result = None
    /\ maxDepth = 0
    /\ nlines = 0
    /\ borrows = [data |-> <<0, 0>>, payload |-> <<0, 0>>]
    /\ calls = <<[fn |-> "EVAL", pc |-> "run"]>>

Running == result = None /\ calls # <<>>

Top == calls[Len(calls)]

At(fn, pc) == Running /\ Top.fn = fn /\ Top.pc = pc

\* the call on top moves to statement pc
Goto(pc) == [calls EXCEPT ![Len(calls)].pc = pc]

\* the call on top returns
Returned == SubSeq(calls, 1, Len(calls) - 1)

\* RefCell::borrow of the cell kind[i]: refused while it is exclusively borrowed
RefCell_borrow(kind, i, pc) ==
    IF borrows[kind][i] < 0
    THEN /\ result' = Some(<<"BorrowError", kind, i>>)
         /\ UNCHANGED <<borrows, calls>>
    ELSE /\ borrows' = [borrows EXCEPT ![kind][i] = @ + 1]
         /\ calls' = Goto(pc)
         /\ UNCHANGED result

\* RefCell::borrow_mut of the cell kind[i]: refused while it is borrowed at all
RefCell_borrow_mut(kind, i, pc) ==
    IF borrows[kind][i] # 0
    THEN /\ result' = Some(<<"BorrowMutError", kind, i>>)
         /\ UNCHANGED <<borrows, calls>>
    ELSE /\ borrows' = [borrows EXCEPT ![kind][i] = -1]
         /\ calls' = Goto(pc)
         /\ UNCHANGED result

\* the drop of a Ref
drop_Ref(kind, i) == [borrows EXCEPT ![kind][i] = @ - 1]

\* the drop of a RefMut
drop_RefMut(kind, i) == [borrows EXCEPT ![kind][i] = 0]

Rest == <<seed, ast, before, maxDepth, nlines>>

\* evaluator.rs: the evaluator calls a function that borrows: env.set (def!,
\* let*, the parameters of a closure, catch*), env.get (a symbol), deref_,
\* reset_, swap_, or the Display of an atom (pr-str, str, prn, println)
EVAL_calls ==
    /\ At("EVAL", "run")
    /\ Len(calls) < MaxCalls
    /\ \E call \in
            {[fn |-> "set", pc |-> "borrow_mut", env |-> env, key |-> Text["x"], value |-> value] :
                 env \in 1..Len(envs), value \in BorrowValues}
            \cup {[fn |-> "get", pc |-> "borrow", env |-> env, key |-> key] :
                      env \in 1..Len(envs), key \in BorrowKeys}
            \cup {[fn |-> "clone_payload", pc |-> "borrow", atom |-> cell] :
                      cell \in 1..Len(atoms)}
            \cup {[fn |-> "replace", pc |-> "borrow_mut", atom |-> cell, obj |-> value] :
                      cell \in 1..Len(atoms), value \in BorrowValues}
            \cup {[fn |-> "swap_", pc |-> "clone_payload", atom |-> cell] :
                      cell \in 1..Len(atoms)}
            \cup {[fn |-> "fmt", pc |-> "borrow_payload", atom |-> cell] :
                      cell \in 1..Len(atoms)} :
          calls' = Append(calls, call)
    /\ UNCHANGED <<envs, atoms, borrows, result>>
    /\ UNCHANGED Rest

\* evaluator.rs: EVAL calls itself: for an operand, for the expansion of a
\* macro, through apply_fully in apply_ and map_, and through the eval bridge
EVAL_reenters ==
    /\ At("EVAL", "run")
    /\ Len(calls) < MaxCalls
    /\ calls' = Append(calls, [fn |-> "EVAL", pc |-> "run"])
    /\ UNCHANGED <<envs, atoms, borrows, result>>
    /\ UNCHANGED Rest

\* an EVAL that was called returns, with Ok or with Err
EVAL_returns ==
    /\ At("EVAL", "run")
    /\ Len(calls) > 1
    /\ calls' = Returned
    /\ UNCHANGED <<envs, atoms, borrows, result>>
    /\ UNCHANGED Rest

\* environment.rs, set: self.data.borrow_mut()
set_borrow_mut ==
    /\ At("set", "borrow_mut")
    /\ RefCell_borrow_mut("data", Top.env, "insert")
    /\ UNCHANGED <<envs, atoms>>
    /\ UNCHANGED Rest

\* environment.rs, set: .insert(key.into(), value), and the RefMut is dropped
set_insert ==
    /\ At("set", "insert")
    /\ envs' = env_set(Heap(envs, atoms, seed), Top.env, Top.key, Top.value).envs
    /\ borrows' = drop_RefMut("data", Top.env)
    /\ calls' = Returned
    /\ UNCHANGED <<atoms, result>>
    /\ UNCHANGED Rest

\* environment.rs, get: self.data.borrow()
get_borrow ==
    /\ At("get", "borrow")
    /\ RefCell_borrow("data", Top.env, "match")
    /\ UNCHANGED <<envs, atoms>>
    /\ UNCHANGED Rest

\* environment.rs, get: the match on .get(key), whose None arm calls
\* parent.get(key) while the Ref of the scrutinee lives
get_match ==
    /\ At("get", "match")
    /\ IF Top.key \notin DOMAIN envs[Top.env].data /\ envs[Top.env].parent # 0
       THEN /\ Len(calls) < MaxCalls
            /\ calls' = Append(Goto("drop"),
                               [fn |-> "get", pc |-> "borrow",
                                env |-> envs[Top.env].parent, key |-> Top.key])
            /\ UNCHANGED borrows
       ELSE /\ calls' = Returned
            /\ borrows' = drop_Ref("data", Top.env)
    /\ UNCHANGED <<envs, atoms, result>>
    /\ UNCHANGED Rest

\* environment.rs, get: the end of the match, where the Ref is dropped
get_drop ==
    /\ At("get", "drop")
    /\ calls' = Returned
    /\ borrows' = drop_Ref("data", Top.env)
    /\ UNCHANGED <<envs, atoms, result>>
    /\ UNCHANGED Rest

\* types.rs, Atom::clone_payload: self.payload.borrow()
clone_payload_borrow ==
    /\ At("clone_payload", "borrow")
    /\ RefCell_borrow("payload", Top.atom, "clone")
    /\ UNCHANGED <<envs, atoms>>
    /\ UNCHANGED Rest

\* types.rs, Atom::clone_payload: .clone(), and the Ref is dropped
clone_payload_clone ==
    /\ At("clone_payload", "clone")
    /\ calls' = Returned
    /\ borrows' = drop_Ref("payload", Top.atom)
    /\ UNCHANGED <<envs, atoms, result>>
    /\ UNCHANGED Rest

\* types.rs, Atom::replace: RefCell::replace borrows the payload exclusively
replace_borrow_mut ==
    /\ At("replace", "borrow_mut")
    /\ RefCell_borrow_mut("payload", Top.atom, "replace")
    /\ UNCHANGED <<envs, atoms>>
    /\ UNCHANGED Rest

\* types.rs, Atom::replace: the payload is replaced and the RefMut dropped
replace_replace ==
    /\ At("replace", "replace")
    /\ atoms' = [atoms EXCEPT ![Top.atom] = Top.obj]
    /\ borrows' = drop_RefMut("payload", Top.atom)
    /\ calls' = Returned
    /\ UNCHANGED <<envs, result>>
    /\ UNCHANGED Rest

\* a swap_ that borrows the payload exclusively and keeps the RefMut while the
\* callable runs
swap__borrow_mut_payload ==
    /\ At("swap_", "clone_payload")
    /\ borrows' = [borrows EXCEPT !.payload[Top.atom] = -1]
    /\ calls' = Goto("apply_fully")
    /\ UNCHANGED <<envs, atoms, result>>
    /\ UNCHANGED Rest

\* core.rs, swap_: args.push(atom.clone_payload())
swap__clone_payload ==
    /\ At("swap_", "clone_payload")
    /\ Len(calls) < MaxCalls
    /\ calls' = Append(Goto("apply_fully"),
                       [fn |-> "clone_payload", pc |-> "borrow", atom |-> Top.atom])
    /\ UNCHANGED <<envs, atoms, borrows, result>>
    /\ UNCHANGED Rest

\* core.rs, swap_: evaluator::apply_fully(f, &args)
swap__apply_fully ==
    /\ At("swap_", "apply_fully")
    /\ Len(calls) < MaxCalls
    /\ calls' = Append(Goto("replace"), [fn |-> "EVAL", pc |-> "run"])
    /\ UNCHANGED <<envs, atoms, borrows, result>>
    /\ UNCHANGED Rest

\* core.rs, swap_: the ? on an Err of apply_fully
swap__raise ==
    /\ At("swap_", "replace")
    /\ calls' = Returned
    /\ UNCHANGED <<envs, atoms, borrows, result>>
    /\ UNCHANGED Rest

\* core.rs, swap_: atom.replace(&obj)
swap__replace ==
    /\ At("swap_", "replace")
    /\ Len(calls) < MaxCalls
    /\ \E obj \in BorrowValues :
          calls' = Append(Goto("Ok"),
                          [fn |-> "replace", pc |-> "borrow_mut", atom |-> Top.atom, obj |-> obj])
    /\ UNCHANGED <<envs, atoms, borrows, result>>
    /\ UNCHANGED Rest

\* core.rs, swap_: Ok(obj)
swap__Ok ==
    /\ At("swap_", "Ok")
    /\ calls' = Returned
    /\ UNCHANGED <<envs, atoms, borrows, result>>
    /\ UNCHANGED Rest

\* printer.rs, Display for Atom: self.borrow_payload()
fmt_borrow_payload ==
    /\ At("fmt", "borrow_payload")
    /\ RefCell_borrow("payload", Top.atom, "write")
    /\ UNCHANGED <<envs, atoms>>
    /\ UNCHANGED Rest

\* printer.rs, Display for Atom: write! formats the payload, which is the
\* Display of an atom again where the payload is one
fmt_write ==
    /\ At("fmt", "write")
    /\ IF Tag(atoms[Top.atom]) = "Atom"
       THEN /\ Len(calls) < MaxCalls
            /\ calls' = Append(Goto("drop"),
                               [fn |-> "fmt", pc |-> "borrow_payload",
                                atom |-> Payload(atoms[Top.atom])])
            /\ UNCHANGED borrows
       ELSE /\ calls' = Returned
            /\ borrows' = drop_Ref("payload", Top.atom)
    /\ UNCHANGED <<envs, atoms, result>>
    /\ UNCHANGED Rest

\* printer.rs, Display for Atom: the end of write!, where the Ref is dropped
fmt_drop ==
    /\ At("fmt", "drop")
    /\ calls' = Returned
    /\ borrows' = drop_Ref("payload", Top.atom)
    /\ UNCHANGED <<envs, atoms, result>>
    /\ UNCHANGED Rest

NextBorrow ==
    \/ EVAL_calls \/ EVAL_reenters \/ EVAL_returns
    \/ set_borrow_mut \/ set_insert
    \/ get_borrow \/ get_match \/ get_drop
    \/ clone_payload_borrow \/ clone_payload_clone
    \/ replace_borrow_mut \/ replace_replace
    \/ swap__clone_payload \/ swap__apply_fully \/ swap__raise \/ swap__replace \/ swap__Ok
    \/ fmt_borrow_payload \/ fmt_write \/ fmt_drop

SpecBorrow == InitBorrow /\ [][NextBorrow]_vars

\* the borrow flags of all the RefCells
Flags ==
    {borrows.data[e] : e \in DOMAIN borrows.data}
        \cup {borrows.payload[c] : c \in DOMAIN borrows.payload}

\* the evaluator is the function that runs
Evaluating == calls # <<>> /\ Top.fn = "EVAL"

\* the cell that the call on top is about to borrow exclusively
AboutToBorrowMut ==
    IF calls = <<>> THEN {}
    ELSE IF Top.fn = "set" /\ Top.pc = "borrow_mut" THEN {borrows.data[Top.env]}
    ELSE IF Top.fn = "replace" /\ Top.pc = "borrow_mut" THEN {borrows.payload[Top.atom]}
    ELSE {}

\* C26: while the evaluator runs, however deep in swap_, apply_fully or itself,
\* no RefCell of a frame or of an atom is exclusively borrowed (none is borrowed
\* at all); Environment::set and Atom::replace find their cell unborrowed, and
\* no borrow is ever refused.
C26_NoBorrowHeldWhileEvaluating ==
    /\ result = None
    /\ Evaluating => Flags = {0}
    /\ AboutToBorrowMut \subseteq {0}

\* inside the callable of a swap_ on the first cell, a replace of that same cell
\* holds its payload exclusively
C26_ReplaceInsideSwapOfSameCell ==
    /\ result = None
    /\ Len(calls) = 4
    /\ calls[2].fn = "swap_" /\ calls[2].atom = 1
    /\ calls[3].fn = "EVAL"
    /\ calls[4].fn = "replace" /\ calls[4].atom = 1 /\ calls[4].pc = "replace"
    /\ borrows.payload[1] = -1

(***************************************************************************)
(* swap! that fails.                                                       *)
(***************************************************************************)
\* (def! a (atom 0)) (def! b (atom 5)) (def! n 7)
SwapErrPrelude ==
    << DefAtom("a"),
       Def("b", Form(<<Sym("atom"), Integer(5)>>)),
       Def("n", Integer(7)) >>

InitSwapErr ==
    /\ seed \in {0, 1}
    /\ \E st \in {AfterLines(SwapErrPrelude, Interpreter(seed))} :
          /\ envs = st.envs
          /\ atoms = st.atoms
          /\ before = [envs |-> st.envs, atoms |-> st.atoms]
    /\ ast = Nil
    /\ result = [ok |-> TRUE, val |-> Nil]
    /\ maxDepth = 0
    /\ nlines = 0
    /\ borrows = NoBorrows
    /\ calls = <<>>

\* (fn* (x) q), with q unbound
ReadsUnbound == Fn(<<"x">>, Sym("q"))

\* (fn* (x y) x)
TakesTwo == Fn(<<"x", "y">>, Sym("x"))

\* (fn* (x) (/ x 0))
DividesByZero == Fn(<<"x">>, Form(<<Sym("/"), Sym("x"), Integer(0)>>))

\* (fn* (x) (swap! b (fn* (x) (throw "boom"))))
SwapsInside == Fn(<<"x">>, Swap("b", Thrower, <<>>))

\* the callables that raise and leave the atoms alone, with the extra arguments
RaisingCalls ==
    { <<Thrower, <<>>>>,
      <<ReadsUnbound, <<>>>>,
      <<TakesTwo, <<>>>>,
      <<DividesByZero, <<>>>>,
      <<SwapsInside, <<>>>>,
      <<Sym("+"), <<Str("a")>>>> }

\* (fn* (x) (throw (reset! a 9)))
ResetsThenThrows == Fn(<<"x">>, Throw(Reset("a", 9)))

\* (fn* (x) (throw (swap! a + x 1)))
SwapsThenThrows ==
    Fn(<<"x">>, Throw(Swap("a", Sym("+"), <<Sym("x"), Integer(1)>>)))

\* (fn* (x) (throw (reset! b 9)))
ResetsOtherThenThrows == Fn(<<"x">>, Throw(Reset("b", 9)))

\* the callables that store in an atom and then raise
StoringCalls ==
    { <<ResetsThenThrows, <<>>>>,
      <<SwapsThenThrows, <<>>>>,
      <<ResetsOtherThenThrows, <<>>>> }

\* second arguments that are not callable
NotCallables ==
    { Integer(5), Str("a"), Nil, Sym("n"), Sym("a"), Form(<<Sym("list"), Sym("+")>>) }

\* first arguments that are not atoms
NotAtoms ==
    { Integer(5), Nil, Sym("n"), Sym("+"), Deref("a") }

RaisingSwapForms ==
    {Swap(name, call[1], call[2]) : name \in {"a", "b"}, call \in RaisingCalls}

StoringSwapForms ==
    {Swap(name, call[1], call[2]) : name \in {"a", "b"}, call \in StoringCalls}

NotCallableForms ==
    {Form(<<Sym("swap!"), Sym(name), f>> \o extra) :
        name \in {"a", "b"}, f \in NotCallables, extra \in {<<Integer(1)>>}}

NotAnAtomForms ==
    {Form(<<Sym("swap!"), x, f>>) : x \in NotAtoms, f \in {Sym("+"), Integer(5)}}

\* (swap! a + 1), (reset! b 6): what the atoms hold changes
GoodStoreForms == {Swap("a", Sym("+"), <<Integer(1)>>), Reset("b", 6)}

RaisingSwapLine == \E form \in RaisingSwapForms : EVAL_line(form)

StoringSwapLine == \E form \in StoringSwapForms : EVAL_line(form)

NotCallableLine == \E form \in NotCallableForms : EVAL_line(form)

NotAnAtomLine == \E form \in NotAnAtomForms : EVAL_line(form)

GoodStoreLine == \E form \in GoodStoreForms : EVAL_line(form)

NextSwapErr ==
    RaisingSwapLine \/ StoringSwapLine \/ NotCallableLine \/ NotAnAtomLine \/ GoodStoreLine

SpecSwapErr == InitSwapErr /\ [][NextSwapErr]_vars

\* the callable of the (swap! name f x ...) of the last line, applied to what
\* the atom held and to the extra arguments, in the heap of before the line
CallableAlone ==
    interpreter_EVAL(Form(<<Payload(ast)[3], Form(<<Sym("deref"), Payload(ast)[2]>>)>>
                              \o SliceFrom(Payload(ast), 4)),
                     Heap(before.envs, before.atoms, seed))

\* C27: a swap! whose callable raises returns the error the callable raised,
\* and the atoms hold what the callable left in them, which for a callable that
\* stores nothing is what they held before; a swap! whose second argument is
\* not callable returns NotCallable, one whose first argument is not an atom
\* returns NotAnAtom, and both leave every atom as it was.
C27_FailedSwapLeavesAtom ==
    /\ ast \in RaisingSwapForms \cup StoringSwapForms =>
          /\ ~result.ok
          /\ ~CallableAlone.ok
          /\ result.val = CallableAlone.val
          /\ atoms = CallableAlone.st.atoms
    /\ ast \in RaisingSwapForms =>
          atoms = before.atoms
    /\ ast \in NotCallableForms =>
          /\ result = Raised(TypeMismatch("NotCallable"))
          /\ atoms = before.atoms
    /\ ast \in NotAnAtomForms =>
          /\ result = Raised(TypeMismatch("NotAnAtom"))
          /\ atoms = before.atoms

\* (swap! a (fn* (x) (throw (reset! a 9)))) on a = 1 raised 9 and a holds the 9
\* of the reset!
C27_RaiseAfterResetOfSameAtom ==
    /\ ast = Swap("a", ResetsThenThrows, <<>>)
    /\ before.atoms[Cell("a")] = Integer(1)
    /\ result = Raised(<<"UserException", Integer(9)>>)
    /\ atoms[Cell("a")] = Integer(9)
    /\ atoms[Cell("b")] = before.atoms[Cell("b")]

(***************************************************************************)
(* printer.rs, call by call: what rep prints of the result of a line.  A   *)
(* call of pr_str or of a Display fmt is a frame of calls: the object, the *)
(* number of its parts that are written, and the text written so far.  The *)
(* host stack holds MaxStack of them.                                      *)
(***************************************************************************)
MaxStack == 8

\* (def! a (atom 0)) (def! b (atom 5))
PrintPrelude == <<DefAtom("a"), Def("b", Form(<<Sym("atom"), Integer(5)>>))>>

InitPrint ==
    /\ seed \in {0, 1}
    /\ \E st \in {AfterLines(PrintPrelude, Interpreter(seed))} :
          /\ envs = st.envs
          /\ atoms = st.atoms
          /\ before = [envs |-> st.envs, atoms |-> st.atoms]
    /\ ast = Nil
    /\ result = [ok |-> TRUE, val |-> Nil]
    /\ maxDepth = 0
    /\ nlines = 0
    /\ borrows = NoBorrows
    /\ calls = <<>>

\* (reset! a a), (reset! a [a]), (reset! a b), (reset! b (list a)),
\* (reset! b (hash-map :k a)), (swap! a (fn* (x) a)),
\* (reset! a (list (deref a))), (reset! b 6)
StoreAtomForms ==
    { Form(<<Sym("reset!"), Sym("a"), Sym("a")>>),
      Form(<<Sym("reset!"), Sym("a"), Vector(<<Sym("a")>>)>>),
      Form(<<Sym("reset!"), Sym("a"), Sym("b")>>),
      Form(<<Sym("reset!"), Sym("b"), Form(<<Sym("list"), Sym("a")>>)>>),
      Form(<<Sym("reset!"), Sym("b"), Form(<<Sym("hash-map"), Keyword(Text["k"]), Sym("a")>>)>>),
      Swap("a", Fn(<<"x">>, Sym("a")), <<>>),
      Form(<<Sym("reset!"), Sym("a"), Form(<<Sym("list"), Deref("a")>>)>>),
      Reset("b", 6) }

\* a, b, (deref a), (list a b), (atom "a"), "a", (fn* (x) a)
ShowForms ==
    { Sym("a"), Sym("b"), Deref("a"),
      Form(<<Sym("list"), Sym("a"), Sym("b")>>),
      Form(<<Sym("atom"), Str("a")>>),
      Str("a"),
      Fn(<<"x">>, Sym("a")) }

\* printer.rs, pr_str and Display for MalObject: the call that prints obj
print_call(via, obj) ==
    [via |-> via, obj |-> obj, i |-> 0,
     out |-> CASE Tag(obj) = "List" -> Text["("]
               [] Tag(obj) = "Vector" -> Text["["]
               [] Tag(obj) = "Map" -> Text["{"]
               [] Tag(obj) = "Atom" -> Text["(atom "]
               [] OTHER -> <<>>]

\* interpreter.rs, rep: EVAL of the form of one more line, whose Ok print
\* hands to pr_str
rep_line(form) ==
    /\ nlines < MaxLines
    /\ calls = <<>>
    /\ \E r \in {interpreter_EVAL(form, Heap(envs, atoms, seed))} :
          /\ result' = [ok |-> r.ok, val |-> r.val]
          /\ envs' = r.st.envs
          /\ atoms' = r.st.atoms
          /\ maxDepth' = r.st.maxDepth
          /\ calls' = IF r.ok THEN <<print_call("pr_str", r.val)>> ELSE <<>>
    /\ ast' = form
    /\ before' = [envs |-> envs, atoms |-> atoms]
    /\ nlines' = nlines + 1
    /\ UNCHANGED <<seed, borrows>>

StoreAtomLine == \E form \in StoreAtomForms : rep_line(form)

ShowLine == \E form \in ShowForms : rep_line(form)

Printing == calls # <<>> /\ result.ok

\* the objects that the call frame formats in calls of their own: the elements
\* of a sequence, the values of a map in the order of its iterator, the
\* payload of an atom
Parts(frame) ==
    CASE Tag(frame.obj) \in {"List", "Vector"} -> Payload(frame.obj)
      [] Tag(frame.obj) = "Map" /\ frame.via = "fmt" ->
            [i \in 1..Len(iter_keys(Payload(frame.obj), seed)) |->
                Payload(frame.obj)[iter_keys(Payload(frame.obj), seed)[i]]]
      [] Tag(frame.obj) = "Atom" /\ frame.via = "fmt" -> <<atoms[Payload(frame.obj)]>>
      [] OTHER -> <<>>

\* what the call writes itself: before its next part, or all of it when the
\* object has no parts
Written(frame) ==
    CASE Tag(frame.obj) \in {"List", "Vector"} ->
            IF frame.i > 0 /\ frame.i < Len(Parts(frame)) THEN Text[" "]
            ELSE IF frame.i < Len(Parts(frame)) THEN <<>>
            ELSE IF Tag(frame.obj) = "List" THEN Text[")"] ELSE Text["]"]
      [] Tag(frame.obj) = "Map" /\ frame.via = "fmt" ->
            IF frame.i < Len(Parts(frame))
            THEN (IF frame.i > 0 THEN Text[" "] ELSE <<>>)
                    \o (LET key == iter_keys(Payload(frame.obj), seed)[frame.i + 1]
                        IN IF key[1] = "String" THEN print_as_string(key[2], Readable)
                           ELSE Text[":"] \o key[2])
                    \o Text[" "]
            ELSE Text["}"]
      [] Tag(frame.obj) = "Atom" /\ frame.via = "fmt" ->
            IF frame.i < Len(Parts(frame)) THEN <<>> ELSE Text[")"]
      [] frame.via = "pr_str" /\ Tag(frame.obj) = "String" ->
            print_as_string(Payload(frame.obj), Readable)
      [] OTHER -> Display(frame.obj, Heap(envs, atoms, seed))

\* how the call frame formats a part: write_sequence calls pr_str, the
\* Display of a map and of an atom write their values with {}; and pr_str
\* itself hands what is no string and no sequence to format!("{}", object)
Callee(frame) ==
    IF Tag(frame.obj) \in {"List", "Vector"} THEN "pr_str" ELSE "fmt"

HandsOver(frame) ==
    frame.via = "pr_str" /\ Tag(frame.obj) \in {"Map", "Atom"}

\* printer.rs: the call on top formats its next part in a call of its own
pr_str_calls ==
    /\ Printing
    /\ Len(calls) < MaxStack
    /\ \E frame \in {calls[Len(calls)]} :
          \/ /\ HandsOver(frame)
             /\ calls' = [calls EXCEPT ![Len(calls)] = print_call("fmt", frame.obj)]
          \/ /\ ~HandsOver(frame)
             /\ frame.i < Len(Parts(frame))
             /\ calls' = Append([calls EXCEPT ![Len(calls)] =
                                    [frame EXCEPT !.i = @ + 1, !.out = @ \o Written(frame)]],
                                print_call(Callee(frame), Parts(frame)[frame.i + 1]))
    /\ UNCHANGED <<envs, atoms, seed, ast, result, before, maxDepth, nlines, borrows>>

\* printer.rs: the call on top has written all its parts and returns its text
\* to its caller, the last one to rep
pr_str_returns ==
    /\ Printing
    /\ \E frame \in {calls[Len(calls)]} :
          /\ ~HandsOver(frame)
          /\ frame.i = Len(Parts(frame))
          /\ IF Len(calls) = 1
             THEN /\ calls' = <<>>
                  /\ result' = [ok |-> TRUE, val |-> result.val,
                                out |-> frame.out \o Written(frame)]
             ELSE /\ calls' = [SubSeq(calls, 1, Len(calls) - 1)
                                  EXCEPT ![Len(calls) - 1].out =
                                      @ \o frame.out \o Written(frame)]
                  /\ UNCHANGED result
    /\ UNCHANGED <<envs, atoms, seed, ast, before, maxDepth, nlines, borrows>>

\* the call that the host stack has no room for ends the process
stack_overflow ==
    /\ Printing
    /\ Len(calls) = MaxStack
    /\ \E frame \in {calls[Len(calls)]} :
          HandsOver(frame) \/ frame.i < Len(Parts(frame))
    /\ result' = [ok |-> FALSE, val |-> <<"stack overflow">>]
    /\ UNCHANGED <<envs, atoms, seed, ast, calls, before, maxDepth, nlines, borrows>>

NextPrint == StoreAtomLine \/ ShowLine \/ pr_str_calls \/ pr_str_returns \/ stack_overflow

SpecPrint == InitPrint /\ [][NextPrint]_vars

\* C28: the printing of the result of a line ends by returning its text,
\* whatever the atoms hold: the calls of pr_str and fmt never run the host
\* stack out.
C28_PrintingTerminates == result.ok \/ result.val # <<"stack overflow">>

(***************************************************************************)
(* defmacro! of a closure that other names and an atom hold.               *)
(***************************************************************************)
\* (def! f (fn* (a b) b)) (def! g f) (def! h (atom f))
HoldersPrelude ==
    << Def("f", SecondOf),
       Def("g", Sym("f")),
       Def("h", Form(<<Sym("atom"), Sym("f")>>)) >>

InitHolders ==
    /\ seed \in {0, 1}
    /\ \E st \in {AfterLines(HoldersPrelude, Interpreter(seed))} :
          /\ envs = st.envs
          /\ atoms = st.atoms
          /\ before = [envs |-> st.envs, atoms |-> st.atoms]
    /\ ast = Nil
    /\ result = [ok |-> TRUE, val |-> Nil]
    /\ maxDepth = 0
    /\ nlines = 0
    /\ borrows = NoBorrows
    /\ calls = <<>>

\* the expressions that give the closure
Givers == {Sym("f"), Sym("g"), Deref("h")}

\* (defmacro! m f), (defmacro! m g), (defmacro! m (deref h))
DefmacroGivenForms == {Defmacro("m", x) : x \in Givers}

\* (macro? x) and (fn? x) of f, g, (deref h) and m
MacroTest(x) == Form(<<Sym("macro?"), x>>)

FunctionTest(x) == Form(<<Sym("fn?"), x>>)

HolderTestForms ==
    {MacroTest(x) : x \in Givers \cup {Sym("m")}}
        \cup {FunctionTest(x) : x \in Givers \cup {Sym("m")}}

\* f and g called as CallsWith calls them
HolderCallForms == CallsWith("f") \cup CallsWith("g")

DefmacroGivenLine == \E form \in DefmacroGivenForms : EVAL_line(form)

HolderTestLine == \E form \in HolderTestForms : EVAL_line(form)

HolderCallLine == \E form \in HolderCallForms : EVAL_line(form)

MacroOfGivenLine == \E form \in CallsWith("m") : EVAL_line(form)

NextHolders == DefmacroGivenLine \/ HolderTestLine \/ HolderCallLine \/ MacroOfGivenLine

SpecHolders == InitHolders /\ [][NextHolders]_vars

\* what the root binds f to after the prelude: the closure of (fn* (a b) b)
GivenClosure ==
    Closure([parameters |-> [positional |-> <<Text["a"], Text["b"]>>, others |-> None],
             body |-> Sym("b"), parent |-> RootEnv, is_macro |-> FALSE])

\* m is bound, by an earlier defmacro!
MacroBound == Text["m"] \in DOMAIN envs[RootEnv].data

\* C29: defmacro! of the closure that f, g and the atom h hold binds m to a
\* macro, the closure with is_macro set, and f, g and h hold the closure as it
\* was: (macro? x) is false and (fn? x) true of each, and a call of f or g
\* evaluates its operands and gives the second.
C29_DefmacroLeavesGivenClosure ==
    /\ envs[RootEnv].data[Text["f"]] = GivenClosure
    /\ envs[RootEnv].data[Text["g"]] = GivenClosure
    /\ atoms[Cell("h")] = GivenClosure
    /\ ~is_macro(GivenClosure)
    /\ ast \in DefmacroGivenForms =>
          /\ result = Value(Closure([Payload(GivenClosure) EXCEPT !.is_macro = TRUE]))
          /\ envs[RootEnv].data[Text["m"]] = result.val
          /\ atoms = before.atoms
    /\ \A x \in Givers :
          /\ ast = MacroTest(x) => result = Value(Bool(FALSE))
          /\ ast = FunctionTest(x) => result = Value(Bool(TRUE))
    /\ (MacroBound /\ ast = MacroTest(Sym("m"))) => result = Value(Bool(TRUE))
    /\ (MacroBound /\ ast = FunctionTest(Sym("m"))) => result = Value(Bool(FALSE))
    /\ \A name \in {"f", "g"} :
          /\ ast = Form(<<Sym(name), Throw(Str("boom")), Integer(5)>>) =>
                result = Raised(<<"UserException", Str("boom")>>)
          /\ ast = Form(<<Sym(name), Sym("q"), Integer(5)>>) =>
                result = Raised(<<"UnknownSymbol", Text["q"]>>)
          /\ ast = Form(<<Sym(name), Integer(1), OnePlusTwo>>) =>
                result = Value(Integer(3))
    /\ (MacroBound /\ ast = Form(<<Sym("m"), Sym("q"), Integer(5)>>)) =>
          result = Value(Integer(5))

\* after a defmacro! had bound m to a macro, (f q 5) raised on the unbound q
C29_FunctionAfterDefmacroEvaluatesOperands ==
    /\ MacroBound
    /\ is_macro(envs[RootEnv].data[Text["m"]])
    /\ ast = Form(<<Sym("f"), Sym("q"), Integer(5)>>)
    /\ result = Raised(<<"UnknownSymbol", Text["q"]>>)

(***************************************************************************)
(* tokens.rs, tokenize, turn by turn of its while loop.  ast is the input  *)
(* given, result the loop: the tokens pushed (or the TokenizerError) and   *)
(* the input left; before is the loop as the last turn found it, and       *)
(* nlines the number of turns made.                                        *)
(***************************************************************************)
MaxInput == 4

\* a quote, a backslash, a plain character, two separators, and characters
\* that start a comment and the unquote tokens
InputChars == {"\"", "\\", "a", " ", "\n", ";", "~", "@"}

Inputs == UNION {[1..n -> InputChars] : n \in 0..MaxInput}

InitTokenize ==
    /\ seed = 0
    /\ envs = <<>>
    /\ atoms = <<>>
    /\ ast \in Inputs
    /\ result = [ok |-> TRUE, val |-> <<>>, input |-> ast]
    /\ before = [ok |-> TRUE, val |-> <<>>, input |-> ast]
    /\ maxDepth = 0
    /\ nlines = 0
    /\ borrows = NoBorrows
    /\ calls = <<>>

\* one turn of while input.len() > 0, which an Err of create_token leaves by ?
tokenize_loop ==
    /\ result.ok
    /\ Len(result.input) > 0
    /\ result' = tokenize_turn(result)
    /\ before' = result
    /\ nlines' = nlines + 1
    /\ UNCHANGED <<envs, atoms, seed, ast, maxDepth, borrows, calls>>

NextTokenize == tokenize_loop

SpecTokenize == InitTokenize /\ [][NextTokenize]_vars

TokenizerErrors == {<<"NoFirstCharacter">>, <<"BadTildeMatch">>, <<"UnbalancedString">>}

\* a quote that no backslash escapes, at index i of input or later
RECURSIVE ClosingQuote(_, _)
ClosingQuote(input, i) ==
    IF i > Len(input) THEN FALSE
    ELSE IF input[i] = "\\" THEN ClosingQuote(input, i + 2)
    ELSE IF input[i] = "\"" THEN TRUE
    ELSE ClosingQuote(input, i + 1)

\* the index of the first character of input that is no separator
FirstOf(input) ==
    IF \E i \in 1..Len(input) : ~is_separator(input[i])
    THEN CHOOSE i \in 1..Len(input) :
            ~is_separator(input[i]) /\ \A k \in 1..(i - 1) : is_separator(input[k])
    ELSE 0

\* the input begins, after separators, with a string literal that is not closed
Unterminated(input) ==
    /\ FirstOf(input) > 0
    /\ input[FirstOf(input)] = "\""
    /\ ~ClosingQuote(input, FirstOf(input) + 1)

\* the loop has ended: by an Err, or with no input left
Ended == ~result.ok \/ Len(result.input) = 0

\* C30: every turn of the loop of tokenize either returns a TokenizerError or
\* pushes one token and leaves less input than it found, so the loop makes at
\* most as many turns as the input has characters; a turn that finds an
\* unterminated string literal returns UnbalancedString; and the loop ends
\* with what tokenize gives for the input.
C30_TokenizeTerminates ==
    /\ nlines > 0 =>
          \/ ~result.ok /\ result.val \in TokenizerErrors
          \/ /\ result.ok
             /\ Len(result.input) < Len(before.input)
             /\ Len(result.val) = Len(before.val) + 1
    /\ nlines <= Len(ast)
    /\ (nlines > 0 /\ Unterminated(before.input)) =>
          (~result.ok /\ result.val = <<"UnbalancedString">>)
    /\ Ended => tokenize(ast) = [ok |-> result.ok, val |-> result.val]

\* a"\" gave the token a, and then UnbalancedString for the literal that ends
\* in an escaped quote
C30_EscapedQuoteLeavesStringOpen ==
    /\ ast = <<"a", "\"", "\\", "\"">>
    /\ nlines = 2
    /\ before.val = <<<<"PlainChars", <<"a">>>>>>
    /\ result.ok = FALSE
    /\ result.val = <<"UnbalancedString">>

====
